---- MODULE Spec2Model ----
(***************************************************************************)
(* Model of the monotonic arena library: the chunked vectors MonoVec and   *)
(* Chain, their iterators, and the Zone / Quota write cursor built on      *)
(* Chain.                                                                  *)
(*                                                                         *)
(* Memory is byte addressed.  A chunk is a heap block made of a header     *)
(* (prev, next, len, cap) followed by cap item slots; a pointer *mut T is  *)
(* the integer address of a slot, a pointer *mut Chunk<T> is the index of  *)
(* the chunk in allocation order (Null = 0).                               *)
(***************************************************************************)
EXTENDS Integers, Sequences, FiniteSets, TLC

\* ------------------------------------------------------------ bounds
\* largest capacity hint given to with_capacity
MaxInitCap == 2
\* chunk growth is cut off when this many chunks exist
MaxChunks == 3
\* largest length passed to reserve
MaxReq == 3
\* element values are 1..NumVals
NumVals == 2
\* number of elements committed to a vector is cut off here
MaxElems == 3
\* longest slice / sequence handed to extend, fill
MaxData == 2
\* number of Quotas reserved from one Zone is cut off here
MaxQuotas == 2
\* largest length passed to Zone::alloc
MaxAlloc == 1
\* number of elements offered to a Zone, directly or through Quotas, is cut off here
MaxWritten == 2
\* largest capacity hint, in bytes, given to HetVec::with_capacity
MaxHetCap == 16
\* texts of 0..MaxText bytes are formatted, besides the long ones
MaxText == 3
\* format calls on one vector
MaxFormats == 2
\* element types of 1..MaxSizeOfT bytes are torn down
MaxSizeOfT == 2

\* ------------------------------------------------- machine parameters
\* mem::size_of::<usize>() of the modelled machine: 16-bit words keep TLC's
\* integers exact
WordSize == 2
\* usize::MAX
UsizeMax == 65535
\* mem::size_of::<Chunk<T>>(): prev, next, len, cap (items is [T; 0])
ChunkHeaderSize == 4 * WordSize

Null == 0
\* content of a slot that was never written
Uninit == 0
\* None of a checked arithmetic operation
Overflow == -1

Values == 1..NumVals
Min(a, b) == IF a < b THEN a ELSE b
Max(a, b) == IF a < b THEN b ELSE a

\* F of the value of e: a local whose value is computed once
Bind(e, F(_)) == CHOOSE y \in { F(x) : x \in { e } } : TRUE

RECURSIVE Reverse(_)
Reverse(s) == IF s = << >> THEN << >> ELSE Reverse(Tail(s)) \o << Head(s) >>

\* sequences over S of length 0..n
SeqsUpTo(S, n) == UNION { [1..k -> S] : k \in 0..n }

\* the sequences of length 0..n that count up through Values from some value
\* on: v, v + 1, ... (wrapping around), so that no two neighbours are equal
Runs(n) == { [j \in 1..k |-> ((v + j - 2) % NumVals) + 1] : v \in Values, k \in 0..n }
\* the slices handed to Quota::fill and the iterators handed to Quota::extend
Slices == Runs(MaxData)

VARIABLES
    flavor,     \* "MonoVec", "Chain" (a bare vector), "Zone" (a Chain inside a Zone)
                \* or "HetVec" (a MonoVec<u8> inside a HetVec)
    needs_drop, \* intrinsics::needs_drop::<T>() of the element type
    SizeOfT,    \* mem::size_of::<T>() of the element type of MonoVec<T>, Chain<T>, Zone<T>
    dropped,    \* the drop_in_place calls made so far: <<address, type>> in call order
    freed,      \* the heap::deallocate calls made so far: [chunk, size, align] in call order
    failed,     \* the slots whose constructor did not complete: <<address, type>>
    head,       \* head: Cell<*mut Chunk<T>>
    tail,       \* tail: Cell<*mut Chunk<T>>
    chunks,     \* the heap blocks holding chunks, by allocation order
    brk,        \* first address the memory provider has not handed out
    panicked,   \* the process aborted (unwrap of None)
    wild,       \* a write went to an address outside every chunk's items
    resv,       \* (ptr, cap) returned by a reserve() the caller has not committed yet
    op,         \* the Quota write operation just performed and what it returned, if any
    issued,     \* references handed out so far: <<address, value>> in commit order
    iter,       \* the live iterator (Chunks + FlatMap state), if any
    out,        \* what the live iterator has yielded so far
    quotas,     \* the Quotas reserved from the Zone, in reservation order
    backward    \* HetVec: backward: Cell<BackwardFn<E>>, the most recent backward function

vecvars == << head, tail, chunks, brk, panicked, wild >>
typevars == << flavor, needs_drop, SizeOfT >>
tornvars == << dropped, freed, failed >>
vars == << flavor, needs_drop, SizeOfT, dropped, freed, failed, head, tail, chunks, brk,
           panicked, wild, resv, op, issued, iter, out, quotas, backward >>

\* ------------------------------------------------------ checked arithmetic
checked_mul(a, b) == IF a = Overflow \/ b = Overflow \/ a * b > UsizeMax THEN Overflow ELSE a * b
checked_add(a, b) == IF a = Overflow \/ b = Overflow \/ a + b > UsizeMax THEN Overflow ELSE a + b

\* ------------------------------------------------------------ raw memory
\* p.offset(n) on a *mut T
offset(p, n) == p + n * SizeOfT

\* mem::min_align_of::<Chunk<T>>(): that of its usize and pointer fields
AlignOfChunk == WordSize

\* heap::allocate(size, align) with b the first address not handed out yet:
\* the block starts at the next multiple of align
allocate(b, align) == ((b + align - 1) \div align) * align

\* items.as_mut_ptr() of a chunk
ItemsPtr(c) == c.base + ChunkHeaderSize

\* the chunk whose item slots hold address p (Null when none does)
ChunkAt(chs, p) ==
    LET hit == { i \in 1..Len(chs) : ItemsPtr(chs[i]) <= p /\ p < offset(ItemsPtr(chs[i]), chs[i].cap) }
    IN IF hit = {} THEN Null ELSE CHOOSE i \in hit : TRUE

\* the index in c.items of the slot at address p
Slot(c, p) == (p - ItemsPtr(c)) \div SizeOfT + 1

\* ptr::write(p, v)
ptr_write(chs, p, v) ==
    LET i == ChunkAt(chs, p)
    IN IF i = Null THEN chs
       ELSE [chs EXCEPT ![i].items[Slot(chs[i], p)] = v]

\* ptr::read(p) / *p
ptr_read(chs, p) ==
    LET i == ChunkAt(chs, p)
    IN IF i = Null THEN Uninit ELSE chs[i].items[Slot(chs[i], p)]

\* ptr::copy_nonoverlapping(data, p, Len(data)) and the write loops of extend
\* data[k] goes to the slot at offset(p, k - 1), as ptr_write puts it there
copy_nonoverlapping(chs, p, data) ==
    [i \in 1..Len(chs) |->
        [chs[i] EXCEPT !.items =
            [j \in 1..Len(chs[i].items) |->
                LET k == j - Slot(chs[i], p) + 1
                IN IF 1 <= k /\ k <= Len(data) THEN data[k] ELSE chs[i].items[j]]]]

\* whether writing Len(data) slots from p leaves the items of every chunk
WritesWild(chs, p, n) == \E k \in 0..(n - 1) : ChunkAt(chs, offset(p, k)) = Null

\* ------------------------------------------------------------ vector state
\* the vector as a value: what reserve / add_len / shrink_len read and change
Vec == [head |-> head, tail |-> tail, chunks |-> chunks, brk |-> brk]

SetVec(v) ==
    /\ head' = v.head
    /\ tail' = v.tail
    /\ chunks' = v.chunks
    /\ brk' = v.brk

\* the tail chunk's current write position: items.as_mut_ptr().offset(len)
WritePos(v) == offset(ItemsPtr(v.chunks[v.tail]), v.chunks[v.tail].len)

\* ------------------------------------------------------------ MonoVec
MonoVec_Chunk_array_size(len) == checked_mul(len, SizeOfT)

MonoVec_Chunk_mem_size(len) == checked_add(ChunkHeaderSize, MonoVec_Chunk_array_size(len))

\* Chunk::new: the block the provider returns, header initialised
\* (size = Overflow: the unwrap in mem_size / array_size panicked)
MonoVec_Chunk_new(base, cap) ==
    [base |-> base, prev |-> Null, next |-> Null, len |-> 0, cap |-> cap,
     size |-> MonoVec_Chunk_mem_size(cap),
     items |-> [j \in 1..cap |-> Uninit]]

\* with_capacity(cap): one chunk of capacity max(cap, 1)
MonoVec_with_capacity(cap) ==
    LET c == MonoVec_Chunk_new(0, Max(cap, 1))
    IN [head |-> 1, tail |-> 1, chunks |-> << c >>, brk |-> c.size]

\* a doubling loop that goes on while new_cap <= len
RECURSIVE MonoVec_new_cap_strict(_, _)
MonoVec_new_cap_strict(new_cap, len) ==
    IF new_cap = Overflow THEN Overflow
    ELSE IF new_cap <= len THEN MonoVec_new_cap_strict(checked_mul(new_cap, 2), len)
    ELSE new_cap

\* the doubling loop of reserve: new_cap doubled until it holds len
RECURSIVE MonoVec_new_cap(_, _)
MonoVec_new_cap(new_cap, len) ==
    IF new_cap = Overflow THEN Overflow
    ELSE IF new_cap < len THEN MonoVec_new_cap(checked_mul(new_cap, 2), len)
    ELSE new_cap

\* reserve(len) -> (ptr, cap)
MonoVec_reserve(v, len) ==
    LET t == v.chunks[v.tail]
        grow == t.cap - t.len < len
        new_cap == MonoVec_new_cap(checked_mul(t.cap, 2), len)
        new == MonoVec_Chunk_new(allocate(v.brk, AlignOfChunk), new_cap)
        id == Len(v.chunks) + 1
        v1 == IF grow /\ new.size # Overflow
              THEN [v EXCEPT !.chunks = Append([v.chunks EXCEPT ![v.tail].next = id],
                                               [new EXCEPT !.prev = v.tail]),
                             !.tail = id,
                             !.brk = new.base + new.size]
              ELSE v
    IN IF grow /\ new.size = Overflow
       THEN [v |-> v, ptr |-> Null, cap |-> 0, panic |-> TRUE]
       ELSE [v |-> v1, ptr |-> WritePos(v1),
             cap |-> v1.chunks[v1.tail].cap - v1.chunks[v1.tail].len, panic |-> FALSE]

\* add_len(len): checked add onto the tail's length
MonoVec_add_len(v, len) ==
    LET n == checked_add(len, v.chunks[v.tail].len)
    IN IF n = Overflow THEN [v |-> v, panic |-> TRUE]
       ELSE [v |-> [v EXCEPT !.chunks[v.tail].len = n], panic |-> FALSE]

\* ------------------------------------------------------------ Chain
Chain_Chunk_array_size(len) == checked_mul(len, SizeOfT)

Chain_Chunk_mem_size(len) == checked_add(ChunkHeaderSize, Chain_Chunk_array_size(len))

Chain_Chunk_new(base, cap) ==
    [base |-> base, prev |-> Null, next |-> Null, len |-> 0, cap |-> cap,
     size |-> Chain_Chunk_mem_size(cap),
     items |-> [j \in 1..cap |-> Uninit]]

Chain_with_capacity(cap) ==
    LET c == Chain_Chunk_new(0, Max(cap, 1))
    IN [head |-> 1, tail |-> 1, chunks |-> << c >>, brk |-> c.size]

\* a growth that allocates just what is asked for
Chain_new_cap_exact(new_cap, len) ==
    IF new_cap = Overflow THEN Overflow ELSE Max(len, 1)

RECURSIVE Chain_new_cap(_, _)
Chain_new_cap(new_cap, len) ==
    IF new_cap = Overflow THEN Overflow
    ELSE IF new_cap < len THEN Chain_new_cap(checked_mul(new_cap, 2), len)
    ELSE new_cap

\* a reserve that grows the way a contiguous vector does: the tail's elements
\* move into a larger block
Chain_reserve_relocating(v, len) ==
    LET t == v.chunks[v.tail]
        grow == t.cap - t.len < len
        new_cap == Chain_new_cap(checked_mul(t.cap, 2), len)
        new == Chain_Chunk_new(allocate(v.brk, AlignOfChunk), new_cap)
        moved == [new EXCEPT !.prev = t.prev, !.len = t.len,
                             !.items = [j \in 1..new_cap |->
                                          IF j <= t.cap THEN t.items[j] ELSE Uninit]]
        v1 == IF grow
              THEN [v EXCEPT !.chunks[v.tail] = moved, !.brk = new.base + new.size]
              ELSE v
    IN [v |-> v1, ptr |-> WritePos(v1),
        cap |-> v1.chunks[v1.tail].cap - v1.chunks[v1.tail].len, panic |-> FALSE]

\* reserve(len) -> (ptr, cap)
Chain_reserve(v, len) ==
    LET t == v.chunks[v.tail]
        grow == t.cap - t.len < len
        new_cap == Chain_new_cap(checked_mul(t.cap, 2), len)
        new == Chain_Chunk_new(allocate(v.brk, AlignOfChunk), new_cap)
        id == Len(v.chunks) + 1
        v1 == IF grow /\ new.size # Overflow
              THEN [v EXCEPT !.chunks = Append([v.chunks EXCEPT ![v.tail].next = id],
                                               [new EXCEPT !.prev = v.tail]),
                             !.tail = id,
                             !.brk = new.base + new.size]
              ELSE v
    IN IF grow /\ new.size = Overflow
       THEN [v |-> v, ptr |-> Null, cap |-> 0, panic |-> TRUE]
       ELSE [v |-> v1, ptr |-> WritePos(v1),
             cap |-> v1.chunks[v1.tail].cap - v1.chunks[v1.tail].len, panic |-> FALSE]

\* add_len(len): an unchecked += on the tail's length (wraps at the word width)
Chain_add_len(v, len) ==
    [v |-> [v EXCEPT !.chunks[v.tail].len = (@ + len) % (UsizeMax + 1)], panic |-> FALSE]

\* a shrink_len that takes new_len for the tail's new length
Chain_shrink_len_from_start(v, ptr, old_len, new_len) ==
    IF offset(ptr, old_len) = WritePos(v)
    THEN [v EXCEPT !.chunks[v.tail].len = new_len]
    ELSE v

\* a shrink_len without the pointer comparison
Chain_shrink_len_unguarded(v, ptr, old_len, new_len) ==
    [v EXCEPT !.chunks[v.tail].len = ((@ - old_len) + new_len) % (UsizeMax + 1)]

\* shrink_len(ptr, old_len, new_len)
Chain_shrink_len(v, ptr, old_len, new_len) ==
    IF offset(ptr, old_len) = WritePos(v)
    THEN [v EXCEPT !.chunks[v.tail].len = (@ - old_len) + new_len]
    ELSE v

\* ------------------------------------------------ push / extend (both vectors)
\* a push that writes the element and does not commit it
MonoVec_push_uncommitted(v, elem) ==
    LET r == MonoVec_reserve(v, 1)
    IN IF r.panic THEN [v |-> v, ptr |-> Null, panic |-> TRUE, wild |-> FALSE]
       ELSE [v |-> [r.v EXCEPT !.chunks = ptr_write(r.v.chunks, r.ptr, elem)],
             ptr |-> r.ptr, panic |-> FALSE, wild |-> WritesWild(r.v.chunks, r.ptr, 1)]

\* MonoVec::push(elem): reserve(1), write, add_len(1); returns &*ptr
MonoVec_push(v, elem) ==
    LET r == MonoVec_reserve(v, 1)
        a == MonoVec_add_len([r.v EXCEPT !.chunks = ptr_write(r.v.chunks, r.ptr, elem)], 1)
    IN IF r.panic THEN [v |-> v, ptr |-> Null, panic |-> TRUE, wild |-> FALSE]
       ELSE [v |-> a.v, ptr |-> r.ptr, panic |-> a.panic,
             wild |-> WritesWild(r.v.chunks, r.ptr, 1)]

\* MonoVec::push_as_slice(elems): reserve(len), write each, add_len(len)
MonoVec_push_as_slice(v, elems) ==
    LET r == MonoVec_reserve(v, Len(elems))
        a == MonoVec_add_len([r.v EXCEPT !.chunks = copy_nonoverlapping(r.v.chunks, r.ptr, elems)],
                             Len(elems))
    IN IF r.panic THEN [v |-> v, ptr |-> Null, panic |-> TRUE, wild |-> FALSE]
       ELSE [v |-> a.v, ptr |-> r.ptr, panic |-> a.panic,
             wild |-> WritesWild(r.v.chunks, r.ptr, Len(elems))]

\* Chain::push(elem)
Chain_push(v, elem) ==
    LET r == Chain_reserve(v, 1)
        a == Chain_add_len([r.v EXCEPT !.chunks = ptr_write(r.v.chunks, r.ptr, elem)], 1)
    IN IF r.panic THEN [v |-> v, ptr |-> Null, panic |-> TRUE, wild |-> FALSE]
       ELSE [v |-> a.v, ptr |-> r.ptr, panic |-> a.panic,
             wild |-> WritesWild(r.v.chunks, r.ptr, 1)]

\* Chain::extend_as_slice(elems)
Chain_extend_as_slice(v, elems) ==
    LET r == Chain_reserve(v, Len(elems))
        a == Chain_add_len([r.v EXCEPT !.chunks = copy_nonoverlapping(r.v.chunks, r.ptr, elems)],
                           Len(elems))
    IN IF r.panic THEN [v |-> v, ptr |-> Null, panic |-> TRUE, wild |-> FALSE]
       ELSE [v |-> a.v, ptr |-> r.ptr, panic |-> a.panic,
             wild |-> WritesWild(r.v.chunks, r.ptr, Len(elems))]

\* ------------------------------------------------------------ bookkeeping
NoResv == [live |-> FALSE, ptr |-> Null, cap |-> 0]
NoIter ==
    [live |-> FALSE, start |-> Null, end |-> Null,
     fptr |-> Null, fend |-> Null, bptr |-> Null, bend |-> Null,
     front |-> 0, back |-> 0, done |-> FALSE]
\* a Quota operation, the Quota it ran on, how many elements it was offered,
\* what it returned and how many elements it took from the iterator it was given
Op(name, q, arg, ret, taken) ==
    [name |-> name, q |-> q, arg |-> arg, ret |-> ret, taken |-> taken]
NoOp == Op("", 0, 0, 0, 0)

\* the references a commit of data at ptr hands out
RECURSIVE Refs(_, _)
Refs(ptr, data) ==
    IF data = << >> THEN << >> ELSE << << ptr, Head(data) >> >> \o Refs(offset(ptr, 1), Tail(data))

\* an operation may run: the process is alive and no iterator borrows the vector
Idle == ~panicked /\ ~iter.live

\* the state after a push / extend that returned r, having committed data
Committed(r, data) ==
    /\ SetVec(r.v)
    /\ panicked' = r.panic
    /\ wild' = (wild \/ r.wild)
    /\ resv' = NoResv
    /\ issued' = IF r.panic THEN issued ELSE issued \o Refs(r.ptr, data)
    /\ op' = NoOp
    /\ UNCHANGED << typevars, tornvars, backward, iter, out, quotas >>

\* the state after a raw reserve that returned r
Reserved(len, r) ==
    /\ SetVec(r.v)
    /\ panicked' = r.panic
    /\ resv' = IF r.panic THEN NoResv ELSE [live |-> TRUE, ptr |-> r.ptr, cap |-> r.cap]
    /\ op' = NoOp
    /\ UNCHANGED << typevars, tornvars, backward, wild, issued, iter, out, quotas >>

\* ------------------------------------------------------- MonoVec actions
MonoVecPush ==
    /\ flavor = "MonoVec" /\ Idle /\ Len(issued) < MaxElems
    /\ \E elem \in Values :
         LET r == MonoVec_push(Vec, elem)
         IN /\ Len(r.v.chunks) <= MaxChunks
            /\ Committed(r, << elem >>)

MonoVecPushAsSlice ==
    /\ flavor = "MonoVec" /\ Idle
    /\ \E elems \in SeqsUpTo(Values, MaxData) :
         LET r == MonoVec_push_as_slice(Vec, elems)
         IN /\ Len(issued) + Len(elems) <= MaxElems
            /\ Len(r.v.chunks) <= MaxChunks
            /\ Committed(r, elems)

MonoVecReserveOf(len) ==
    /\ flavor = "MonoVec" /\ Idle
    /\ LET r == MonoVec_reserve(Vec, len)
       IN /\ Len(r.v.chunks) <= MaxChunks
          /\ Reserved(len, r)

MonoVecReserve == \E len \in 0..MaxReq : MonoVecReserveOf(len)

\* the caller writes data into the space of the pending reserve, then add_len(len)
MonoVecAddLen ==
    /\ flavor = "MonoVec" /\ Idle /\ resv.live
    /\ \E data \in SeqsUpTo(Values, MaxData) :
         LET a == MonoVec_add_len([Vec EXCEPT !.chunks = copy_nonoverlapping(chunks, resv.ptr, data)],
                                  Len(data))
         IN /\ Len(data) <= resv.cap
            /\ Len(issued) + Len(data) <= MaxElems
            /\ Committed([v |-> a.v, ptr |-> resv.ptr, panic |-> a.panic,
                                     wild |-> WritesWild(chunks, resv.ptr, Len(data))], data)

\* --------------------------------------------------------- Chain actions
ChainPush ==
    /\ flavor = "Chain" /\ Idle /\ Len(issued) < MaxElems
    /\ \E elem \in Values :
         LET r == Chain_push(Vec, elem)
         IN /\ Len(r.v.chunks) <= MaxChunks
            /\ Committed(r, << elem >>)

ChainExtendAsSlice ==
    /\ flavor = "Chain" /\ Idle
    /\ \E elems \in SeqsUpTo(Values, MaxData) :
         LET r == Chain_extend_as_slice(Vec, elems)
         IN /\ Len(issued) + Len(elems) <= MaxElems
            /\ Len(r.v.chunks) <= MaxChunks
            /\ Committed(r, elems)

ChainReserveOf(len) ==
    /\ flavor = "Chain" /\ Idle
    /\ LET r == Chain_reserve(Vec, len)
       IN /\ Len(r.v.chunks) <= MaxChunks
          /\ Reserved(len, r)

ChainReserve == \E len \in 0..MaxReq : ChainReserveOf(len)

ChainAddLen ==
    /\ flavor = "Chain" /\ Idle /\ resv.live
    /\ \E data \in SeqsUpTo(Values, MaxData) :
         LET a == Chain_add_len([Vec EXCEPT !.chunks = copy_nonoverlapping(chunks, resv.ptr, data)],
                                Len(data))
         IN /\ Len(data) <= resv.cap
            /\ Len(issued) + Len(data) <= MaxElems
            /\ Committed([v |-> a.v, ptr |-> resv.ptr, panic |-> a.panic,
                                     wild |-> WritesWild(chunks, resv.ptr, Len(data))], data)

\* ------------------------------------------------------------ iteration
\* Chunks { start, end } with the FlatMap adapter around it: frontiter and
\* backiter are slice iterators (ptr, end); None is the empty slice at Null
NewIter(v) ==
    [live |-> TRUE, start |-> v.head, end |-> v.tail,
     fptr |-> Null, fend |-> Null, bptr |-> Null, bend |-> Null,
     front |-> 0, back |-> 0, done |-> FALSE]

\* MonoVec Chunks::next -> Option<&[T]>
MonoVec_Chunks_next(chs, it) ==
    LET chunk == it.start
    IN IF chunk = Null THEN [it |-> it, some |-> FALSE, ptr |-> Null, len |-> 0]
       ELSE [it |-> IF chunk = it.end THEN [it EXCEPT !.start = Null, !.end = Null]
                    ELSE [it EXCEPT !.start = chs[chunk].next],
             some |-> TRUE, ptr |-> ItemsPtr(chs[chunk]), len |-> chs[chunk].len]

\* a next_back that ends the iteration on reaching the front chunk, without
\* yielding it
MonoVec_Chunks_next_back_short(chs, it) ==
    LET chunk == it.end
    IN IF chunk = Null \/ chunk = it.start
       THEN [it |-> [it EXCEPT !.start = Null, !.end = Null],
             some |-> FALSE, ptr |-> Null, len |-> 0]
       ELSE [it |-> [it EXCEPT !.end = chs[chunk].prev],
             some |-> TRUE, ptr |-> ItemsPtr(chs[chunk]), len |-> chs[chunk].len]

\* MonoVec Chunks::next_back
MonoVec_Chunks_next_back(chs, it) ==
    LET chunk == it.end
    IN IF chunk = Null THEN [it |-> it, some |-> FALSE, ptr |-> Null, len |-> 0]
       ELSE [it |-> IF chunk = it.start THEN [it EXCEPT !.start = Null, !.end = Null]
                    ELSE [it EXCEPT !.end = chs[chunk].prev],
             some |-> TRUE, ptr |-> ItemsPtr(chs[chunk]), len |-> chs[chunk].len]

\* Chain Chunks::next
Chain_Chunks_next(chs, it) ==
    LET chunk == it.start
    IN IF chunk = Null THEN [it |-> it, some |-> FALSE, ptr |-> Null, len |-> 0]
       ELSE [it |-> IF chunk = it.end THEN [it EXCEPT !.start = Null, !.end = Null]
                    ELSE [it EXCEPT !.start = chs[chunk].next],
             some |-> TRUE, ptr |-> ItemsPtr(chs[chunk]), len |-> chs[chunk].len]

\* Chain Chunks::next_back
Chain_Chunks_next_back(chs, it) ==
    LET chunk == it.end
    IN IF chunk = Null THEN [it |-> it, some |-> FALSE, ptr |-> Null, len |-> 0]
       ELSE [it |-> IF chunk = it.start THEN [it EXCEPT !.start = Null, !.end = Null]
                    ELSE [it EXCEPT !.end = chs[chunk].prev],
             some |-> TRUE, ptr |-> ItemsPtr(chs[chunk]), len |-> chs[chunk].len]

Chunks_next(chs, it) ==
    IF flavor = "MonoVec" THEN MonoVec_Chunks_next(chs, it) ELSE Chain_Chunks_next(chs, it)

Chunks_next_back(chs, it) ==
    IF flavor = "MonoVec" THEN MonoVec_Chunks_next_back(chs, it)
    ELSE Chain_Chunks_next_back(chs, it)

\* Items::next / Iter::next: FlatMap::next over the chunks' slices
RECURSIVE FlatMap_next(_, _)
FlatMap_next(chs, it) ==
    IF it.fptr # it.fend
    THEN [it |-> [it EXCEPT !.fptr = offset(@, 1)], some |-> TRUE, ptr |-> it.fptr]
    ELSE LET c == Chunks_next(chs, it)
         IN IF c.some
            THEN FlatMap_next(chs, [c.it EXCEPT !.fptr = c.ptr, !.fend = offset(c.ptr, c.len)])
            ELSE IF it.bptr # it.bend
                 THEN [it |-> [it EXCEPT !.bptr = offset(@, 1)], some |-> TRUE, ptr |-> it.bptr]
                 ELSE [it |-> it, some |-> FALSE, ptr |-> Null]

\* Items::next_back / Iter::next_back: FlatMap::next_back
RECURSIVE FlatMap_next_back(_, _)
FlatMap_next_back(chs, it) ==
    IF it.bptr # it.bend
    THEN [it |-> [it EXCEPT !.bend = offset(@, -1)], some |-> TRUE, ptr |-> offset(it.bend, -1)]
    ELSE LET c == Chunks_next_back(chs, it)
         IN IF c.some
            THEN FlatMap_next_back(chs, [c.it EXCEPT !.bptr = c.ptr, !.bend = offset(c.ptr, c.len)])
            ELSE IF it.fptr # it.fend
                 THEN [it |-> [it EXCEPT !.fend = offset(@, -1)], some |-> TRUE, ptr |-> offset(it.fend, -1)]
                 ELSE [it |-> it, some |-> FALSE, ptr |-> Null]

\* the state after an iterator call that returned r (front: from next)
Yielded(r, isFront) ==
    /\ iter' = [r.it EXCEPT !.front = IF isFront /\ r.some THEN @ + 1 ELSE @,
                            !.back = IF ~isFront /\ r.some THEN @ + 1 ELSE @,
                            !.done = ~r.some]
    /\ out' = IF r.some THEN Append(out, << r.ptr, ptr_read(chunks, r.ptr) >>) ELSE out
    /\ op' = NoOp
    /\ UNCHANGED << typevars, tornvars, backward, vecvars, resv, issued, quotas >>

\* vec.items() / (&vec).into_iter()
MonoVecItems ==
    /\ flavor = "MonoVec" /\ Idle
    /\ iter' = NewIter(Vec)
    /\ out' = << >>
    /\ op' = NoOp
    /\ UNCHANGED << typevars, tornvars, backward, vecvars, resv, issued, quotas >>

ItemsNext ==
    /\ flavor = "MonoVec" /\ ~panicked /\ iter.live
    /\ Yielded(FlatMap_next(chunks, iter), TRUE)

ItemsNextBack ==
    /\ flavor = "MonoVec" /\ ~panicked /\ iter.live
    /\ Yielded(FlatMap_next_back(chunks, iter), FALSE)

\* the Items iterator goes out of scope
ItemsDrop ==
    /\ flavor = "MonoVec" /\ ~panicked /\ iter.live
    /\ iter' = NoIter
    /\ out' = << >>
    /\ op' = NoOp
    /\ UNCHANGED << typevars, tornvars, backward, vecvars, resv, issued, quotas >>

\* chain.iter() / (&chain).into_iter()
ChainIter ==
    /\ flavor = "Chain" /\ Idle
    /\ iter' = NewIter(Vec)
    /\ out' = << >>
    /\ op' = NoOp
    /\ UNCHANGED << typevars, tornvars, backward, vecvars, resv, issued, quotas >>

IterNext ==
    /\ flavor = "Chain" /\ ~panicked /\ iter.live
    /\ Yielded(FlatMap_next(chunks, iter), TRUE)

IterNextBack ==
    /\ flavor = "Chain" /\ ~panicked /\ iter.live
    /\ Yielded(FlatMap_next_back(chunks, iter), FALSE)

IterDrop ==
    /\ flavor = "Chain" /\ ~panicked /\ iter.live
    /\ iter' = NoIter
    /\ out' = << >>
    /\ op' = NoOp
    /\ UNCHANGED << typevars, tornvars, backward, vecvars, resv, issued, quotas >>

\* ------------------------------------------------------------ specification
\* a bare MonoVec or Chain, right after with_capacity(cap)
Init ==
    /\ flavor \in {"MonoVec", "Chain"}
    /\ needs_drop = FALSE
    /\ SizeOfT = 1
    /\ dropped = << >>
    /\ freed = << >>
    /\ failed = << >>
    /\ \E cap \in 0..MaxInitCap :
         LET v == IF flavor = "MonoVec" THEN MonoVec_with_capacity(cap)
                  ELSE Chain_with_capacity(cap)
         IN /\ head = v.head /\ tail = v.tail /\ chunks = v.chunks /\ brk = v.brk
    /\ panicked = FALSE
    /\ wild = FALSE
    /\ resv = NoResv
    /\ op = NoOp
    /\ issued = << >>
    /\ iter = NoIter
    /\ out = << >>
    /\ quotas = << >>
    /\ backward = Null

Next ==
    \/ MonoVecPush
    \/ MonoVecPushAsSlice
    \/ MonoVecReserve
    \/ MonoVecAddLen
    \/ ChainPush
    \/ ChainExtendAsSlice
    \/ ChainReserve
    \/ ChainAddLen
    \/ MonoVecItems
    \/ ItemsNext
    \/ ItemsNextBack
    \/ ItemsDrop
    \/ ChainIter
    \/ IterNext
    \/ IterNextBack
    \/ IterDrop

Spec == Init /\ [][Next]_vars

\* ------------------------------------------------------------ Zone / Quota
\* Zone::push(elem): the chain's push, the reference made mutable
Zone_push(v, elem) == Chain_push(v, elem)

\* an alloc that commits only the requested length
Zone_alloc_len(v, len) ==
    LET r == Chain_reserve(v, len)
        a == Chain_add_len(r.v, len)
    IN IF r.panic THEN [v |-> v, panic |-> TRUE, quota |-> [origin |-> Null, len |-> 0, cap |-> 0]]
       ELSE [v |-> a.v, panic |-> a.panic,
             quota |-> [origin |-> r.ptr, len |-> 0, cap |-> r.cap]]

\* Zone::alloc(len): reserve, commit the whole capacity, hand out a Quota over it
Zone_alloc(v, len) ==
    LET r == Chain_reserve(v, len)
        a == Chain_add_len(r.v, r.cap)
    IN IF r.panic THEN [v |-> v, panic |-> TRUE, quota |-> [origin |-> Null, len |-> 0, cap |-> 0]]
       ELSE [v |-> a.v, panic |-> a.panic,
             quota |-> [origin |-> r.ptr, len |-> 0, cap |-> r.cap]]

\* a push without the capacity test
Quota_push_unchecked(chs, q, elem) ==
    [q |-> [q EXCEPT !.len = @ + 1],
     chunks |-> ptr_write(chs, offset(q.origin, q.len), elem),
     err |-> 0,
     wild |-> WritesWild(chs, offset(q.origin, q.len), 1)]

\* Quota::push(elem) -> Result<(), T>   (err = 0: Ok(()), otherwise Err(err))
Quota_push(chs, q, elem) ==
    IF q.cap = q.len
    THEN [q |-> q, chunks |-> chs, err |-> elem, wild |-> FALSE]
    ELSE [q |-> [q EXCEPT !.len = @ + 1],
          chunks |-> ptr_write(chs, offset(q.origin, q.len), elem),
          err |-> 0,
          wild |-> WritesWild(chs, offset(q.origin, q.len), 1)]

\* a fill that copies the whole slice whatever room is left
Quota_fill_whole(chs, q, data) ==
    LET len == Len(data)
    IN [q |-> [q EXCEPT !.len = @ + len],
        chunks |-> copy_nonoverlapping(chs, offset(q.origin, q.len), SubSeq(data, 1, len)),
        ret |-> len,
        wild |-> WritesWild(chs, offset(q.origin, q.len), len)]

\* Quota::fill(data) -> usize
Quota_fill(chs, q, data) ==
    LET len == Min(q.cap - q.len, Len(data))
    IN [q |-> [q EXCEPT !.len = @ + len],
        chunks |-> copy_nonoverlapping(chs, offset(q.origin, q.len), SubSeq(data, 1, len)),
        ret |-> len,
        wild |-> WritesWild(chs, offset(q.origin, q.len), len)]

\* an extend that writes every element of the iterator, room or not
Quota_extend_all(chs, q, elems) ==
    [q |-> [q EXCEPT !.len = @ + Len(elems)],
     chunks |-> copy_nonoverlapping(chs, offset(q.origin, q.len), elems),
     ret |-> Len(elems), rest |-> << >>,
     wild |-> WritesWild(chs, offset(q.origin, q.len), Len(elems))]

\* Quota::extend(elems) -> usize; rest is what is left in the iterator afterwards
RECURSIVE Quota_extend_loop(_, _, _, _, _)
Quota_extend_loop(chs, q, it, count, w) ==
    IF q.len < q.cap /\ it # << >>
    THEN Quota_extend_loop(ptr_write(chs, offset(q.origin, q.len), Head(it)),
                           [q EXCEPT !.len = @ + 1], Tail(it), count + 1,
                           w \/ WritesWild(chs, offset(q.origin, q.len), 1))
    ELSE [q |-> q, chunks |-> chs, ret |-> count, rest |-> it, wild |-> w]

Quota_extend(chs, q, elems) == Quota_extend_loop(chs, q, elems, 0, FALSE)

\* Quota::clear(): with needs_drop the written elements are dropped in place and
\* len is reset; without it the body is skipped
Quota_clear(q) == IF needs_drop THEN [q EXCEPT !.len = 0] ELSE q

\* a drop that gives the whole Quota back, written or not
Quota_drop_unwritten(v, q) == Chain_shrink_len(v, q.origin, q.cap, 0)

\* a drop that passes the written length and the capacity the other way round
Quota_drop_swapped(v, q) == Chain_shrink_len(v, q.origin, q.len, q.cap)

\* Drop for Quota: shrink the allocation back to the written length if possible
Quota_drop(v, q) == Chain_shrink_len(v, q.origin, q.cap, q.len)

\* Quota::into_slice(): the slice (origin, len); the Quota is dropped on return
Quota_into_slice(v, q) ==
    [v |-> Quota_drop(v, q), ptr |-> q.origin, len |-> q.len]

Live == { i \in 1..Len(quotas) : quotas[i].st = "live" }

\* elements written into the Zone so far, directly or through a Quota
RECURSIVE QuotaLens(_)
QuotaLens(qs) == IF qs = << >> THEN 0 ELSE Head(qs).len + QuotaLens(Tail(qs))
Written(qs) == Len(issued) + QuotaLens(qs)

\* an allocation of n slots happened: every live Quota has now seen a later
\* allocation (later), one of at least one slot if n > 0 (laterNZ); a released
\* Quota keeps the flags it was released with and is no longer the latest
\* thing that happened to the Zone (fresh)
Later(qs, n) ==
    [i \in 1..Len(qs) |->
        IF qs[i].st = "live"
        THEN [qs[i] EXCEPT !.later = TRUE, !.laterNZ = @ \/ n > 0]
        ELSE [qs[i] EXCEPT !.fresh = FALSE]]

\* Quota i is released
Released(qs, i) == [qs EXCEPT ![i].st = "released", ![i].fresh = ~qs[i].later]

ZonePushOf(elem) ==
    /\ flavor = "Zone" /\ Idle /\ Written(quotas) < MaxWritten
    /\ LET r == Zone_push(Vec, elem)
       IN /\ Len(r.v.chunks) <= MaxChunks
          /\ SetVec(r.v)
          /\ panicked' = r.panic
          /\ wild' = (wild \/ r.wild)
          /\ issued' = Append(issued, << r.ptr, elem >>)
          /\ quotas' = Later(quotas, 1)
          /\ op' = NoOp
    /\ UNCHANGED << typevars, tornvars, backward, resv, iter, out >>

ZonePush == \E elem \in Values : ZonePushOf(elem)

\* alloc is only there for T: Copy, which rules out needs_drop
ZoneAllocOf(len) ==
    /\ flavor = "Zone" /\ Idle /\ ~needs_drop /\ Len(quotas) < MaxQuotas
    /\ LET r == Zone_alloc(Vec, len)
       IN /\ Len(r.v.chunks) <= MaxChunks
          /\ SetVec(r.v)
          /\ panicked' = r.panic
          /\ quotas' = Append(Later(quotas, r.quota.cap),
                              [origin |-> r.quota.origin, len |-> r.quota.len,
                               cap |-> r.quota.cap, st |-> "live",
                               later |-> FALSE, laterNZ |-> FALSE, fresh |-> FALSE])
          /\ op' = NoOp
    /\ UNCHANGED << typevars, tornvars, backward, wild, resv, issued, iter, out >>

ZoneAlloc == \E len \in 0..MaxAlloc : ZoneAllocOf(len)

QuotaPushOf(i, elem) ==
    /\ flavor = "Zone" /\ Idle /\ i \in Live
    /\ LET r == Quota_push(chunks, quotas[i], elem)
       IN /\ Written(quotas) + 1 <= MaxWritten
          /\ chunks' = r.chunks
          /\ quotas' = [quotas EXCEPT ![i] = r.q]
          /\ wild' = (wild \/ r.wild)
          /\ op' = Op("push", i, 1, r.err, 0)
    /\ UNCHANGED << typevars, tornvars, backward, head, tail, brk, panicked, resv, issued, iter, out >>

QuotaPush == \E i \in Live, elem \in Values : QuotaPushOf(i, elem)

QuotaFillOf(i, data) ==
    /\ flavor = "Zone" /\ Idle /\ i \in Live
    /\ LET r == Quota_fill(chunks, quotas[i], data)
       IN /\ Written(quotas) + Len(data) <= MaxWritten
          /\ chunks' = r.chunks
          /\ quotas' = [quotas EXCEPT ![i] = r.q]
          /\ wild' = (wild \/ r.wild)
          /\ op' = Op("fill", i, Len(data), r.ret, 0)
    /\ UNCHANGED << typevars, tornvars, backward, head, tail, brk, panicked, resv, issued, iter, out >>

QuotaFill == \E i \in Live, data \in Slices : QuotaFillOf(i, data)

QuotaExtendOf(i, elems) ==
    /\ flavor = "Zone" /\ Idle /\ i \in Live
    /\ LET r == Quota_extend(chunks, quotas[i], elems)
       IN /\ Written(quotas) + Len(elems) <= MaxWritten
          /\ chunks' = r.chunks
          /\ quotas' = [quotas EXCEPT ![i] = r.q]
          /\ wild' = (wild \/ r.wild)
          /\ op' = Op("extend", i, Len(elems), r.ret, Len(elems) - Len(r.rest))
    /\ UNCHANGED << typevars, tornvars, backward, head, tail, brk, panicked, resv, issued, iter, out >>

QuotaExtend == \E i \in Live, elems \in Slices : QuotaExtendOf(i, elems)

QuotaClear ==
    /\ flavor = "Zone" /\ Idle
    /\ \E i \in Live :
         /\ quotas' = [quotas EXCEPT ![i] = Quota_clear(quotas[i])]
         /\ op' = Op("clear", i, 0, 0, 0)
    /\ UNCHANGED << typevars, tornvars, backward, vecvars, resv, issued, iter, out >>

QuotaIntoSlice ==
    /\ flavor = "Zone" /\ Idle
    /\ \E i \in Live :
         LET r == Quota_into_slice(Vec, quotas[i])
         IN /\ SetVec(r.v)
            /\ quotas' = Released(quotas, i)
            /\ op' = NoOp
    /\ UNCHANGED << typevars, tornvars, backward, panicked, wild, resv, issued, iter, out >>

\* a Quota goes out of scope without into_slice
QuotaDrop ==
    /\ flavor = "Zone" /\ Idle
    /\ \E i \in Live :
         /\ SetVec(Quota_drop(Vec, quotas[i]))
         /\ quotas' = Released(quotas, i)
         /\ op' = NoOp
    /\ UNCHANGED << typevars, tornvars, backward, panicked, wild, resv, issued, iter, out >>

\* a Zone right after with_capacity(count), for an element type that needs drop or not
InitZone ==
    /\ flavor = "Zone"
    /\ needs_drop \in BOOLEAN
    /\ SizeOfT = 1
    /\ dropped = << >>
    /\ freed = << >>
    /\ failed = << >>
    /\ \E count \in 0..MaxInitCap :
         LET v == Chain_with_capacity(count)
         IN /\ head = v.head /\ tail = v.tail /\ chunks = v.chunks /\ brk = v.brk
    /\ panicked = FALSE
    /\ wild = FALSE
    /\ resv = NoResv
    /\ op = NoOp
    /\ issued = << >>
    /\ iter = NoIter
    /\ out = << >>
    /\ quotas = << >>
    /\ backward = Null

\* allocation and release on a Zone: pushes, Quotas reserved, written one element
\* at a time, finalized into slices and dropped in any order
NextZone ==
    \/ ZonePush
    \/ ZoneAlloc
    \/ QuotaPush
    \/ QuotaIntoSlice
    \/ QuotaDrop

SpecZone == InitZone /\ [][NextZone]_vars

\* Quotas that are written and then finalized into slices, none dropped unused
NextSlice ==
    \/ ZonePush
    \/ ZoneAlloc
    \/ QuotaPush
    \/ QuotaIntoSlice

SpecSlice == InitZone /\ [][NextSlice]_vars
\* the write operations of Quotas reserved from a Zone
NextQuota ==
    \/ ZoneAlloc
    \/ QuotaPush
    \/ QuotaFill
    \/ QuotaExtend
    \/ QuotaClear
    \/ QuotaDrop

SpecQuota == InitZone /\ [][NextQuota]_vars

\* ------------------------------------------------------------ HetVec
\* const SENTINEL: usize = !0
SENTINEL == UsizeMax

\* a ^ b on usize
RECURSIVE Xor(_, _)
Xor(a, b) == IF a = 0 /\ b = 0 THEN 0 ELSE ((a + b) % 2) + 2 * Xor(a \div 2, b \div 2)

\* the types T pushed into the vector, by mem::size_of::<T>() and
\* mem::min_align_of::<T>(): a byte, a word, a zero-sized type and a type
\* aligned to four words, in front of which zero to three filler words lie
HetTypes ==
    << [size |-> 1, align |-> 1],
       [size |-> WordSize, align |-> WordSize],
       [size |-> 0, align |-> 1],
       [size |-> 4 * WordSize, align |-> 4 * WordSize] >>
TypeIds == 1..Len(HetTypes)
size_of(t) == HetTypes[t].size
min_align_of(t) == HetTypes[t].align

\* mem::size_of / min_align_of::<FencePost<E>>(): one usize
SizeOfFencePost == WordSize
AlignOfFencePost == WordSize

\* Self::forward::<T> as usize, Self::backward::<T> as usize: the addresses
\* of the functions instantiated for T
FnForward(t) == 4096 + 16 * t
FnBackward(t) == 8192 + 16 * t
\* the T whose forward / backward function lies at an address (0: none does)
ForwardType(f) ==
    IF \E t \in TypeIds : FnForward(t) = f THEN CHOOSE t \in TypeIds : FnForward(t) = f ELSE 0
BackwardType(b) ==
    IF \E t \in TypeIds : FnBackward(t) = b THEN CHOOSE t \in TypeIds : FnBackward(t) = b ELSE 0

\* the stub descriptor of emplace::<T>: the address of the forward function
\* that stands for a T under construction
FnStub(t) == 12288 + 16 * t
StubType(f) ==
    IF \E t \in TypeIds : FnStub(t) = f THEN CHOOSE t \in TypeIds : FnStub(t) = f ELSE 0

\* PtrUtil::align(a), a a power of two: (me.checked_add(a - 1).unwrap() & !(a - 1))
align(me, a) ==
    LET s == checked_add(me, a - 1)
    IN IF s = Overflow THEN Overflow ELSE s - (s % a)

\* space_for::<T>()
space_for(size, al) == size + al - 1

\* FencePost::new / forward / backward
FencePost_new(f, b) == Xor(f, b)
FencePost_forward(word, b) == Xor(word, b)
FencePost_backward(word, f) == Xor(word, f)

\* the bytes of a word after its first one
WordRest == -2

\* *(p as *mut usize) = w  and  *(p as *mut usize)
write_word(chs, p, w) ==
    copy_nonoverlapping(chs, p, << w >> \o [k \in 1..(WordSize - 1) |-> WordRest])
read_word(chs, p) == ptr_read(chs, p)

\* a forward::<T> whose end address is rounded up to the descriptor alignment
HetVec_forward_padded(t, fence) ==
    LET obj == align(fence + SizeOfFencePost, min_align_of(t))
    IN [obj |-> obj, end |-> align(obj + size_of(t), AlignOfFencePost),
        backward |-> FnBackward(t), type |-> t]

\* forward::<T>(fence) -> Forward { obj, end, backward }
HetVec_forward(t, fence) ==
    LET obj == align(fence + SizeOfFencePost, min_align_of(t))
    IN [obj |-> obj, end |-> obj + size_of(t), backward |-> FnBackward(t), type |-> t]

\* the scan of backward::<T> over the sentinel words in front of the object
RECURSIVE HetVec_backward_scan(_, _, _)
HetVec_backward_scan(chs, ptr, f) ==
    IF Xor(read_word(chs, ptr), f) = SENTINEL
    THEN HetVec_backward_scan(chs, ptr - WordSize, f)
    ELSE ptr

\* backward::<T>(end) -> Backward { forward, fence }
HetVec_backward(chs, t, end) ==
    LET ptr == end - size_of(t)
    IN [forward |-> FnForward(t),
        fence |-> IF min_align_of(t) <= AlignOfFencePost
                  THEN (ptr - (ptr % AlignOfFencePost)) - SizeOfFencePost
                  ELSE HetVec_backward_scan(chs, ptr - SizeOfFencePost, FnForward(t))]

\* the sentinel fill of alloc: sentinel is a *mut usize and is moved on by
\* offset(size_of::<usize>()), that is by size_of::<usize>() words; a
\* store outside every chunk ends the run (wild)
RECURSIVE HetVec_fill(_, _, _, _)
HetVec_fill(chs, sentinel, obj, stamp) ==
    IF sentinel = obj THEN [chunks |-> chs, wild |-> FALSE]
    ELSE IF WritesWild(chs, sentinel, WordSize) THEN [chunks |-> chs, wild |-> TRUE]
    ELSE HetVec_fill(write_word(chs, sentinel, stamp), sentinel + WordSize * WordSize,
                     obj, stamp)

\* an alloc that leaves the stub descriptor of T in the fence post
HetVec_alloc_stubbed(v, bw, t) ==
    LET size == space_for(SizeOfFencePost, AlignOfFencePost)
                + space_for(size_of(t), min_align_of(t))
    IN Bind(MonoVec_reserve(v, size), LAMBDA r :
       Bind(align(r.ptr, AlignOfFencePost), LAMBDA fence :
       Bind(align(fence + SizeOfFencePost, min_align_of(t)), LAMBDA obj :
       Bind(MonoVec_add_len(r.v, (obj + size_of(t)) - r.ptr), LAMBDA a :
       Bind(HetVec_fill(a.v.chunks, fence + SizeOfFencePost, obj,
                        Xor(FnForward(t), SENTINEL)), LAMBDA f :
         IF r.panic \/ fence = Overflow \/ obj = Overflow \/ a.panic
         THEN [v |-> v, obj |-> Null, panic |-> TRUE, wild |-> FALSE]
         ELSE IF f.wild
         THEN [v |-> [a.v EXCEPT !.chunks = f.chunks], obj |-> Null,
               panic |-> FALSE, wild |-> TRUE]
         ELSE [v |-> [a.v EXCEPT !.chunks =
                          write_word(f.chunks, fence, FencePost_new(FnStub(t), bw))],
               obj |-> obj, panic |-> FALSE, wild |-> FALSE])))))

\* alloc::<T>() -> *mut T
HetVec_alloc(v, bw, t) ==
    LET size == space_for(SizeOfFencePost, AlignOfFencePost)
                + space_for(size_of(t), min_align_of(t))
    IN Bind(MonoVec_reserve(v, size), LAMBDA r :
       Bind(align(r.ptr, AlignOfFencePost), LAMBDA fence :
       Bind(align(fence + SizeOfFencePost, min_align_of(t)), LAMBDA obj :
       Bind(MonoVec_add_len(r.v, (obj + size_of(t)) - r.ptr), LAMBDA a :
       Bind(HetVec_fill(a.v.chunks, fence + SizeOfFencePost, obj,
                        Xor(FnForward(t), SENTINEL)), LAMBDA f :
         IF r.panic \/ fence = Overflow \/ obj = Overflow \/ a.panic
         THEN [v |-> v, obj |-> Null, panic |-> TRUE, wild |-> FALSE]
         ELSE IF f.wild
         THEN [v |-> [a.v EXCEPT !.chunks = f.chunks], obj |-> Null,
               panic |-> FALSE, wild |-> TRUE]
         ELSE [v |-> [a.v EXCEPT !.chunks =
                          write_word(f.chunks, fence, FencePost_new(FnForward(t), bw))],
               obj |-> obj, panic |-> FALSE, wild |-> FALSE])))))

\* push::<T>(elem) -> &T
HetVec_push(v, bw, t, elem) ==
    Bind(HetVec_alloc(v, bw, t), LAMBDA al :
      IF al.panic \/ al.wild
      THEN [v |-> al.v, backward |-> bw, ptr |-> Null, panic |-> al.panic, wild |-> al.wild]
      ELSE [v |-> [al.v EXCEPT !.chunks =
                       copy_nonoverlapping(@, al.obj, [k \in 1..size_of(t) |-> elem])],
            backward |-> FnBackward(t), ptr |-> al.obj, panic |-> FALSE, wild |-> FALSE])

\* (&vec).into_iter() -> Items
HetVec_into_iter(v, bw) ==
    [live |-> TRUE, chunks |-> [start |-> v.head, end |-> v.tail],
     cur |-> Null, end |-> Null, back_cur |-> Null, back_start |-> Null,
     backward |-> Null, back_backward |-> bw,
     front |-> 0, back |-> 0, done |-> FALSE, hung |-> FALSE]

\* what an Items call comes to: Some(&*erase(obj)) for an object of type t,
\* None, a loop that never ends (hung) or a call through a word that is no
\* function (ub)
ItemsRet(it, some, obj, t, hung, ub) ==
    [it |-> it, some |-> some, obj |-> obj, type |-> t, hung |-> hung, ub |-> ub]

\* Items::next
RECURSIVE Items_next(_, _)
Items_next(chs, it) ==
    IF it.cur = it.end
    THEN LET c == MonoVec_Chunks_next(chs, it.chunks)
         IN IF c.some
            THEN Items_next(chs, [it EXCEPT !.chunks = c.it, !.cur = c.ptr,
                                            !.end = offset(c.ptr, c.len)])
            ELSE IF it.back_start = Null
            THEN ItemsRet(it, FALSE, Null, 0, FALSE, FALSE)
            ELSE IF it.back_start = it.back_cur
            THEN ItemsRet(it, FALSE, Null, 0, TRUE, FALSE)
            ELSE Items_next(chs, [it EXCEPT !.cur = it.back_start, !.end = it.back_cur])
    ELSE LET fence == align(it.cur, AlignOfFencePost)
             forward_fn == FencePost_forward(read_word(chs, fence), it.backward)
             t == ForwardType(forward_fn)
             forward == HetVec_forward(t, fence)
             it1 == [it EXCEPT !.back_start = IF @ = it.cur THEN forward.end ELSE @,
                               !.cur = forward.end,
                               !.backward = forward.backward]
         IN IF t = 0 THEN ItemsRet(it, FALSE, Null, 0, FALSE, TRUE)
            ELSE IF forward.obj # Null THEN ItemsRet(it1, TRUE, forward.obj, t, FALSE, FALSE)
            ELSE Items_next(chs, it1)

\* Items::next_back
RECURSIVE Items_next_back(_, _)
Items_next_back(chs, it) ==
    IF it.back_cur = it.back_start
    THEN LET c == MonoVec_Chunks_next_back(chs, it.chunks)
         IN IF c.some
            THEN Items_next_back(chs, [it EXCEPT !.chunks = c.it, !.back_start = c.ptr,
                                                 !.back_cur = offset(c.ptr, c.len)])
            ELSE IF it.end = Null
            THEN ItemsRet(it, FALSE, Null, 0, FALSE, FALSE)
            ELSE IF it.end = it.cur
            THEN ItemsRet(it, FALSE, Null, 0, TRUE, FALSE)
            ELSE Items_next_back(chs, [it EXCEPT !.back_cur = it.end, !.back_start = it.cur])
    ELSE LET bt == BackwardType(it.back_backward)
             b == HetVec_backward(chs, bt, it.back_cur)
             t == ForwardType(b.forward)
             forward == HetVec_forward(t, b.fence)
             it1 == [it EXCEPT !.end = IF @ = it.back_cur THEN b.fence ELSE @,
                               !.back_cur = b.fence,
                               !.back_backward =
                                   FencePost_backward(read_word(chs, b.fence), b.forward)]
         IN IF bt = 0 THEN ItemsRet(it, FALSE, Null, 0, FALSE, TRUE)
            ELSE IF forward.obj # Null THEN ItemsRet(it1, TRUE, forward.obj, t, FALSE, FALSE)
            ELSE Items_next_back(chs, it1)

\* the value behind a reference to a T at obj (a zero-sized T has one value, 0)
Deref(chs, obj, t) == IF size_of(t) = 0 THEN 0 ELSE ptr_read(chs, obj)

\* the HetVec may be used: the process is alive, nothing went wild, no
\* iterator call is stuck
HetIdle == ~panicked /\ ~wild

HetVecPushOf(t, elem) ==
    /\ flavor = "HetVec" /\ HetIdle /\ ~iter.live /\ Len(issued) < MaxElems
    /\ \E r \in { HetVec_push(Vec, backward, t, elem) } :
          /\ Len(r.v.chunks) <= MaxChunks
          /\ SetVec(r.v)
          /\ backward' = r.backward
          /\ panicked' = r.panic
          /\ wild' = r.wild
          /\ issued' = IF r.panic \/ r.wild THEN issued
                       ELSE Append(issued, << r.ptr, elem, t >>)
    /\ UNCHANGED << typevars, tornvars, resv, op, iter, out, quotas >>

HetVecPush ==
    \E t \in TypeIds : \E elem \in (IF size_of(t) = 0 THEN {0} ELSE Values) :
        HetVecPushOf(t, elem)

HetVecIntoIter ==
    /\ flavor = "HetVec" /\ HetIdle /\ ~iter.live
    /\ iter' = HetVec_into_iter(Vec, backward)
    /\ out' = << >>
    /\ UNCHANGED << typevars, tornvars, backward, vecvars, resv, op, issued, quotas >>

\* the state after an Items call that came to r
HetYielded(r, isFront) ==
    /\ iter' = [r.it EXCEPT !.front = IF isFront /\ r.some THEN @ + 1 ELSE @,
                            !.back = IF ~isFront /\ r.some THEN @ + 1 ELSE @,
                            !.done = ~r.some /\ ~r.hung /\ ~r.ub,
                            !.hung = r.hung]
    /\ out' = IF r.some THEN Append(out, << r.obj, Deref(chunks, r.obj, r.type), r.type >>)
              ELSE out
    /\ wild' = r.ub
    /\ UNCHANGED << typevars, tornvars, backward, head, tail, chunks, brk, panicked,
                    resv, op, issued, quotas >>

HetItemsNext ==
    /\ flavor = "HetVec" /\ HetIdle /\ iter.live /\ ~iter.hung
    /\ \E r \in { Items_next(chunks, iter) } : HetYielded(r, TRUE)

HetItemsNextBack ==
    /\ flavor = "HetVec" /\ HetIdle /\ iter.live /\ ~iter.hung
    /\ \E r \in { Items_next_back(chunks, iter) } : HetYielded(r, FALSE)

\* the Items iterator goes out of scope
HetItemsDrop ==
    /\ flavor = "HetVec" /\ HetIdle /\ iter.live /\ ~iter.hung
    /\ iter' = NoIter
    /\ out' = << >>
    /\ UNCHANGED << typevars, tornvars, backward, vecvars, resv, op, issued, quotas >>

\* a HetVec right after with_capacity(cap)
InitHet ==
    /\ flavor = "HetVec"
    /\ needs_drop = FALSE
    /\ SizeOfT = 1
    /\ dropped = << >>
    /\ freed = << >>
    /\ failed = << >>
    /\ \E cap \in { 0, MaxInitCap, MaxHetCap } :
         LET v == MonoVec_with_capacity(cap)
         IN /\ head = v.head /\ tail = v.tail /\ chunks = v.chunks /\ brk = v.brk
    /\ backward = Null
    /\ panicked = FALSE
    /\ wild = FALSE
    /\ resv = NoResv
    /\ op = NoOp
    /\ issued = << >>
    /\ iter = NoIter
    /\ out = << >>
    /\ quotas = << >>

NextHet ==
    \/ HetVecPush
    \/ HetVecIntoIter
    \/ HetItemsNext
    \/ HetItemsNextBack
    \/ HetItemsDrop

SpecHet == InitHet /\ [][NextHet]_vars

\* ------------------------------------------------------------ format
\* fmt::Arguments is the sequence of pieces the formatter hands to write_str
\* one after the other; the text a direct formatter produces is their
\* concatenation
RECURSIVE Flatten(_)
Flatten(args) == IF args = << >> THEN << >> ELSE Head(args) \o Flatten(Tail(args))

\* the bytes of the slice (ptr, len)
from_raw_parts(chs, ptr, len) == [k \in 1..len |-> ptr_read(chs, offset(ptr, k - 1))]

\* fmt::Write for StrQuota: write_str(data) fills and fails on a short fill
StrQuota_write_str(chs, q, data) ==
    Bind(Quota_fill(chs, q, data), LAMBDA r :
        [q |-> r.q, chunks |-> r.chunks, ok |-> ~(r.ret < Len(data)), wild |-> r.wild])

\* fmt::write(&mut quota, args): the pieces in order, up to the first error
RECURSIVE fmt_write(_, _, _, _)
fmt_write(chs, q, args, w) ==
    IF args = << >> THEN [q |-> q, chunks |-> chs, ok |-> TRUE, wild |-> w]
    ELSE Bind(StrQuota_write_str(chs, q, Head(args)), LAMBDA r :
           IF r.ok THEN fmt_write(r.chunks, r.q, Tail(args), w \/ r.wild)
           ELSE [r EXCEPT !.wild = w \/ r.wild])

\* let mut len = 32
FormatGuess == 32

\* Zone::format(args): the loop from the guess len on; tries lists, for every
\* attempt, the chunk it was reserved in, its capacity and how many chunks
\* there were before it
RECURSIVE Zone_format_loop(_, _, _, _)
Zone_format_loop(v, args, len, tries) ==
    Bind(Zone_alloc(v, len), LAMBDA al :
      IF al.panic
      THEN [v |-> v, ptr |-> Null, len |-> 0, panic |-> TRUE, wild |-> FALSE, tries |-> tries]
      ELSE Bind(fmt_write(al.v.chunks, al.quota, args, FALSE), LAMBDA w :
             LET v1 == [al.v EXCEPT !.chunks = w.chunks]
                 try == [chunk |-> al.v.tail, cap |-> al.quota.cap, had |-> Len(v.chunks)]
             IN IF w.ok
                THEN Bind(Quota_into_slice(v1, w.q), LAMBDA s :
                       [v |-> s.v, ptr |-> s.ptr, len |-> s.len, panic |-> FALSE,
                        wild |-> w.wild, tries |-> Append(tries, try)])
                ELSE Zone_format_loop(Quota_drop(v1, Quota_clear(w.q)), args,
                                      Quota_clear(w.q).cap + 1, Append(tries, try))))

Zone_format(v, args) == Zone_format_loop(v, args, FormatGuess, << >>)

\* io::Write for &mut [u8], write_all(data): the slice (ptr, len) takes what
\* fits and moves on; a short write is ErrorKind::WriteZero
slice_write_all(chs, s, data) ==
    LET n == Min(s.len, Len(data))
    IN [chunks |-> copy_nonoverlapping(chs, s.ptr, SubSeq(data, 1, n)),
        s |-> [ptr |-> offset(s.ptr, n), len |-> s.len - n],
        ok |-> n = Len(data),
        wild |-> WritesWild(chs, s.ptr, n)]

\* slice.write_fmt(args)
RECURSIVE slice_write_fmt(_, _, _, _)
slice_write_fmt(chs, s, args, w) ==
    IF args = << >> THEN [chunks |-> chs, s |-> s, ok |-> TRUE, wild |-> w]
    ELSE Bind(slice_write_all(chs, s, Head(args)), LAMBDA r :
           IF r.ok THEN slice_write_fmt(r.chunks, r.s, Tail(args), w \/ r.wild)
           ELSE [r EXCEPT !.wild = w \/ r.wild])

\* a format that commits the whole reserved capacity
RECURSIVE MonoVec_format_whole(_, _, _, _)
MonoVec_format_whole(v, args, needed, tries) ==
    Bind(MonoVec_reserve(v, needed), LAMBDA r :
      IF r.panic
      THEN [v |-> v, ptr |-> Null, len |-> 0, panic |-> TRUE, wild |-> FALSE, tries |-> tries]
      ELSE Bind(slice_write_fmt(r.v.chunks, [ptr |-> r.ptr, len |-> r.cap], args, FALSE),
                LAMBDA w :
             LET v1 == [r.v EXCEPT !.chunks = w.chunks]
                 try == [chunk |-> r.v.tail, cap |-> r.cap, had |-> Len(v.chunks)]
             IN IF w.ok
                THEN Bind(MonoVec_add_len(v1, r.cap), LAMBDA a :
                       [v |-> a.v, ptr |-> r.ptr, len |-> r.cap,
                        panic |-> a.panic, wild |-> w.wild, tries |-> Append(tries, try)])
                ELSE MonoVec_format_whole(v1, args, r.cap + 1, Append(tries, try))))

\* MonoVec::format(args): the loop from needed on
RECURSIVE MonoVec_format_loop(_, _, _, _)
MonoVec_format_loop(v, args, needed, tries) ==
    Bind(MonoVec_reserve(v, needed), LAMBDA r :
      IF r.panic
      THEN [v |-> v, ptr |-> Null, len |-> 0, panic |-> TRUE, wild |-> FALSE, tries |-> tries]
      ELSE Bind(slice_write_fmt(r.v.chunks, [ptr |-> r.ptr, len |-> r.cap], args, FALSE),
                LAMBDA w :
             LET v1 == [r.v EXCEPT !.chunks = w.chunks]
                 try == [chunk |-> r.v.tail, cap |-> r.cap, had |-> Len(v.chunks)]
             IN IF w.ok
                THEN Bind(MonoVec_add_len(v1, r.cap - w.s.len), LAMBDA a :
                       [v |-> a.v, ptr |-> r.ptr, len |-> r.cap - w.s.len,
                        panic |-> a.panic, wild |-> w.wild, tries |-> Append(tries, try)])
                ELSE MonoVec_format_loop(v1, args, r.cap + 1, Append(tries, try))))

MonoVec_format(v, args) == MonoVec_format_loop(v, args, 1, << >>)

\* the formatted texts, counting up through Values like Runs: short ones from
\* any value on, and long ones around the guess and beyond twice the guess
LongLens == { FormatGuess - 1, FormatGuess, FormatGuess + 1, 2 * FormatGuess + 1 }

Texts ==
    Runs(MaxText) \cup { [j \in 1..n |-> ((j - 1) % NumVals) + 1] : n \in LongLens }

\* the ways a text reaches write_str: in one piece, or in two with the cut
\* at the start or in the middle
Pieces(text) ==
    { << text >> } \cup
    { << SubSeq(text, 1, k), SubSeq(text, k + 1, Len(text)) >> :
        k \in { 0, Len(text) \div 2 } }

FmtArgs == UNION { Pieces(text) : text \in Texts }

\* format(args) returns the slice (ptr, len): issued records the slice with the
\* bytes it holds on return, op the text asked for and the attempts made
Formatted(args, r) ==
    /\ Len(r.v.chunks) <= MaxChunks + 1
    /\ SetVec(r.v)
    /\ panicked' = r.panic
    /\ wild' = (wild \/ r.wild)
    /\ issued' = IF r.panic THEN issued
                 ELSE Append(issued, << r.ptr, from_raw_parts(r.v.chunks, r.ptr, r.len) >>)
    /\ op' = Op("format", 0, Flatten(args), r.len, r.tries)
    /\ UNCHANGED << typevars, tornvars, backward, resv, iter, out, quotas >>

ZoneFormatOf(args) ==
    /\ flavor = "Zone" /\ Idle /\ Len(issued) < MaxFormats
    /\ \E r \in { Zone_format(Vec, args) } : Formatted(args, r)

ZoneFormat == \E args \in FmtArgs : ZoneFormatOf(args)

MonoVecFormatOf(args) ==
    /\ flavor = "MonoVec" /\ Idle /\ Len(issued) < MaxFormats
    /\ \E r \in { MonoVec_format(Vec, args) } : Formatted(args, r)

MonoVecFormat == \E args \in FmtArgs : MonoVecFormatOf(args)

\* a Zone<u8> or a MonoVec<u8> right after with_capacity(cap)
InitFormat ==
    /\ flavor \in {"Zone", "MonoVec"}
    /\ needs_drop = FALSE
    /\ SizeOfT = 1
    /\ dropped = << >>
    /\ freed = << >>
    /\ failed = << >>
    /\ \E cap \in (0..MaxInitCap) \cup { FormatGuess } :
         LET v == IF flavor = "MonoVec" THEN MonoVec_with_capacity(cap)
                  ELSE Chain_with_capacity(cap)
         IN /\ head = v.head /\ tail = v.tail /\ chunks = v.chunks /\ brk = v.brk
    /\ panicked = FALSE
    /\ wild = FALSE
    /\ resv = NoResv
    /\ op = NoOp
    /\ issued = << >>
    /\ iter = NoIter
    /\ out = << >>
    /\ quotas = << >>
    /\ backward = Null

NextFormat == ZoneFormat \/ MonoVecFormat

SpecFormat == InitFormat /\ [][NextFormat]_vars

\* ------------------------------------------------------------ teardown
\* a vector that has not been dropped
Alive == head # Null

\* the drop loop of Chain::clear over one chunk: drop_in_place(ptr), then
\* ptr = ptr.offset(size_of::<T>()), while ptr < end
RECURSIVE Chain_clear_drops(_, _)
Chain_clear_drops(ptr, end) ==
    IF ptr < end THEN << << ptr, "T" >> >> \o Chain_clear_drops(offset(ptr, SizeOfT), end)
    ELSE << >>

\* the chunk loop of Chain::clear, from the head on: every chunk's elements are
\* dropped, every chunk but the tail is deallocated
RECURSIVE Chain_clear_loop(_, _, _)
Chain_clear_loop(v, dr, fr) ==
    LET chunk == v.head
        c == v.chunks[chunk]
        dr1 == IF needs_drop
               THEN dr \o Chain_clear_drops(ItemsPtr(c), offset(ItemsPtr(c), c.len))
               ELSE dr
        v1 == [v EXCEPT !.head = c.next]
    IN IF chunk = v.tail THEN [v |-> v1, dropped |-> dr1, freed |-> fr]
       ELSE Chain_clear_loop(v1, dr1,
                Append(fr, [chunk |-> chunk,
                            size |-> (ChunkHeaderSize + c.len * SizeOfT) % (UsizeMax + 1),
                            align |-> AlignOfChunk]))

\* a clear that makes the tail the head and keeps its length
Chain_clear_keeping_len(v, dr, fr) ==
    Bind(Chain_clear_loop(v, dr, fr), LAMBDA r :
        [r EXCEPT !.v = [r.v EXCEPT !.head = v.tail]])

\* Chain::clear(): the loop, then the tail becomes the head, with length 0
Chain_clear(v, dr, fr) ==
    Bind(Chain_clear_loop(v, dr, fr), LAMBDA r :
        [r EXCEPT !.v = [r.v EXCEPT !.head = v.tail, !.chunks[v.tail].len = 0]])

\* Drop for Chain: clear(), then the head is deallocated
Chain_drop(v, dr, fr) ==
    Bind(Chain_clear(v, dr, fr), LAMBDA r :
        [r EXCEPT !.freed =
            Append(@, [chunk |-> r.v.head,
                       size |-> (ChunkHeaderSize + r.v.chunks[r.v.head].len * SizeOfT)
                                    % (UsizeMax + 1),
                       align |-> AlignOfChunk])])

\* mem::min_align_of::<T>() of the element type: that of an integer of its size
AlignOfT == SizeOfT

\* the drop loop of Drop for MonoVec over one chunk: drop_in_place(cur), then
\* cur = cur.offset(1), while cur < end
RECURSIVE MonoVec_drop_drops(_, _)
MonoVec_drop_drops(cur, end) ==
    IF cur < end THEN << << cur, "T" >> >> \o MonoVec_drop_drops(offset(cur, 1), end)
    ELSE << >>

\* Drop for MonoVec from chunk on: every chunk's elements are dropped and the
\* chunk is deallocated
RECURSIVE MonoVec_drop_loop(_, _, _, _)
MonoVec_drop_loop(chs, chunk, dr, fr) ==
    IF chunk = Null THEN [dropped |-> dr, freed |-> fr]
    ELSE LET c == chs[chunk]
         IN MonoVec_drop_loop(chs, c.next,
                IF needs_drop
                THEN dr \o MonoVec_drop_drops(ItemsPtr(c), offset(ItemsPtr(c), c.len))
                ELSE dr,
                Append(fr, [chunk |-> chunk,
                            size |-> (c.cap * SizeOfT) % (UsizeMax + 1),
                            align |-> AlignOfT]))

MonoVec_drop(v, dr, fr) == MonoVec_drop_loop(v.chunks, v.head, dr, fr)

\* Chain::clear() on a live Chain (issued keeps listing what was pushed so far)
ChainClear ==
    /\ flavor = "Chain" /\ Alive /\ Idle /\ op.name # "clear"
    /\ \E r \in { Chain_clear(Vec, dropped, freed) } :
         /\ SetVec(r.v)
         /\ dropped' = r.dropped
         /\ freed' = r.freed
    /\ op' = Op("clear", 0, 0, 0, 0)
    /\ UNCHANGED << typevars, failed, backward, panicked, wild, resv, issued, iter, out, quotas >>

\* the Chain goes out of scope
ChainDrop ==
    /\ flavor = "Chain" /\ Alive /\ Idle
    /\ \E r \in { Chain_drop(Vec, dropped, freed) } :
         /\ chunks' = r.v.chunks
         /\ dropped' = r.dropped
         /\ freed' = r.freed
    /\ head' = Null /\ tail' = Null
    /\ op' = Op("drop", 0, 0, 0, 0)
    /\ UNCHANGED << typevars, failed, backward, brk, panicked, wild, resv, issued, iter, out, quotas >>

\* the MonoVec goes out of scope
MonoVecDrop ==
    /\ flavor = "MonoVec" /\ Alive /\ Idle
    /\ \E r \in { MonoVec_drop(Vec, dropped, freed) } :
         /\ dropped' = r.dropped
         /\ freed' = r.freed
    /\ head' = Null /\ tail' = Null
    /\ op' = Op("drop", 0, 0, 0, 0)
    /\ UNCHANGED << typevars, failed, backward, chunks, brk, panicked, wild, resv, issued, iter, out, quotas >>

\* a MonoVec or Chain right after with_capacity(cap), for an element type of
\* 1..MaxSizeOfT bytes that needs drop or not
InitDrop ==
    /\ flavor \in {"MonoVec", "Chain"}
    /\ needs_drop \in BOOLEAN
    /\ SizeOfT \in 1..MaxSizeOfT
    /\ dropped = << >>
    /\ freed = << >>
    /\ failed = << >>
    /\ \E cap \in 0..MaxInitCap :
         \E v \in { IF flavor = "MonoVec" THEN MonoVec_with_capacity(cap)
                    ELSE Chain_with_capacity(cap) } :
            /\ head = v.head /\ tail = v.tail /\ chunks = v.chunks /\ brk = v.brk
    /\ panicked = FALSE
    /\ wild = FALSE
    /\ resv = NoResv
    /\ op = NoOp
    /\ issued = << >>
    /\ iter = NoIter
    /\ out = << >>
    /\ quotas = << >>
    /\ backward = Null

\* elements are pushed, the Chain is cleared any number of times, and in the
\* end the vector is dropped
NextDrop ==
    \/ Alive /\ MonoVecPush
    \/ Alive /\ ChainPush
    \/ ChainClear
    \/ ChainDrop
    \/ MonoVecDrop

SpecDrop == InitDrop /\ [][NextDrop]_vars

\* ------------------------------------------------------------ HetVec teardown
\* the stub's Forward: no object to finalize or yield, the end address and the
\* backward function of the T that is to be there
HetVec_forward_stub(t, fence) ==
    [HetVec_forward(t, fence) EXCEPT !.obj = Null]

\* forward_fn(fence): the call through the function address a fence post
\* decodes to (type 0: the word is the address of no function)
Call_forward(forward_fn, fence) ==
    IF ForwardType(forward_fn) # 0 THEN HetVec_forward(ForwardType(forward_fn), fence)
    ELSE IF StubType(forward_fn) # 0 THEN HetVec_forward_stub(StubType(forward_fn), fence)
    ELSE [obj |-> Null, end |-> Null, backward |-> Null, type |-> 0]

\* a walk that keeps decoding with the backward function it started with
RECURSIVE HetVec_drop_walk_stale(_, _, _, _, _)
HetVec_drop_walk_stale(chs, cur, end, bw, r) ==
    IF cur = end THEN [r EXCEPT !.backward = bw]
    ELSE LET fence == align(cur, AlignOfFencePost)
             forward == Call_forward(FencePost_forward(read_word(chs, fence), bw), fence)
         IN IF forward.type = 0 THEN [r EXCEPT !.ub = TRUE]
            ELSE HetVec_drop_walk_stale(chs, forward.end, end, bw,
                     IF forward.obj # Null
                     THEN [r EXCEPT !.dropped = Append(@, << forward.obj, forward.type >>)]
                     ELSE [r EXCEPT !.stubs = @ + 1])

\* the walk of Drop for HetVec over one chunk, from cur to end: the object of
\* every entry that is no stub is dropped through the entry's own drop glue
\* (ub: a call through a word that is no function; stubs counts the entries
\* skipped)
RECURSIVE HetVec_drop_walk(_, _, _, _, _)
HetVec_drop_walk(chs, cur, end, bw, r) ==
    IF cur = end THEN [r EXCEPT !.backward = bw]
    ELSE LET fence == align(cur, AlignOfFencePost)
             forward == Call_forward(FencePost_forward(read_word(chs, fence), bw), fence)
         IN IF forward.type = 0 THEN [r EXCEPT !.ub = TRUE]
            ELSE HetVec_drop_walk(chs, forward.end, end, forward.backward,
                     IF forward.obj # Null
                     THEN [r EXCEPT !.dropped = Append(@, << forward.obj, forward.type >>)]
                     ELSE [r EXCEPT !.stubs = @ + 1])

\* for chunk in self.vec.chunks() { ... }
RECURSIVE HetVec_drop_loop(_, _, _)
HetVec_drop_loop(chs, it, r) ==
    Bind(MonoVec_Chunks_next(chs, it), LAMBDA c :
      IF ~c.some \/ r.ub THEN r
      ELSE Bind(HetVec_drop_walk(chs, c.ptr, offset(c.ptr, c.len), r.backward, r),
                LAMBDA w : HetVec_drop_loop(chs, c.it, w)))

\* Drop for HetVec, from backward = 0 on
HetVec_drop(v, dr) ==
    HetVec_drop_loop(v.chunks, NewIter(v),
                     [dropped |-> dr, backward |-> Null, ub |-> FALSE, stubs |-> 0])

\* the HetVec goes out of scope: its own drop, then that of the MonoVec<u8>
\* inside it (op.arg: the stubs the walk skipped)
HetVecDrop ==
    /\ flavor \in { "HetVec", "Arena", "DynZone" } /\ Alive /\ HetIdle /\ ~iter.live
    /\ \E r \in { HetVec_drop(Vec, dropped) } :
         /\ dropped' = r.dropped
         /\ wild' = r.ub
         /\ op' = Op("drop", 0, r.stubs, 0, 0)
    /\ freed' = MonoVec_drop(Vec, << >>, freed).freed
    /\ head' = Null /\ tail' = Null
    /\ UNCHANGED << typevars, failed, backward, chunks, brk, panicked, resv, issued,
                    iter, out, quotas >>

\* values of any type are pushed, and in the end the HetVec is dropped
NextHetDrop ==
    \/ Alive /\ HetVecPush
    \/ HetVecDrop

SpecHetDrop == InitHet /\ [][NextHetDrop]_vars

\* ------------------------------------------------------------ Arena / DynZone
\* a construction that writes the descriptor of T before f() has run
HetVec_emplace_eager(v, bw, t, elem, ok) ==
    Bind(HetVec_alloc(v, bw, t), LAMBDA al :
      IF al.panic \/ al.wild
      THEN [v |-> al.v, backward |-> bw, ptr |-> Null, panic |-> al.panic, wild |-> al.wild]
      ELSE [v |-> IF ok
                  THEN [al.v EXCEPT !.chunks =
                           copy_nonoverlapping(@, al.obj, [k \in 1..size_of(t) |-> elem])]
                  ELSE al.v,
            backward |-> FnBackward(t), ptr |-> al.obj, panic |-> FALSE, wild |-> FALSE])

\* HetVec::emplace::<T>(f): the space is reserved and committed as by alloc and
\* the fence post holds the stub descriptor while f() constructs the value in
\* place; once f() has returned (ok) the stub is replaced by the descriptor of
\* T; when f() fails the stub stays
HetVec_emplace(v, bw, t, elem, ok) ==
    Bind(HetVec_alloc(v, bw, t), LAMBDA al :
      IF al.panic \/ al.wild
      THEN [v |-> al.v, backward |-> bw, ptr |-> Null, panic |-> al.panic, wild |-> al.wild]
      ELSE Bind(align(MonoVec_reserve(v, space_for(SizeOfFencePost, AlignOfFencePost)
                                         + space_for(size_of(t), min_align_of(t))).ptr,
                      AlignOfFencePost), LAMBDA fence :
           Bind(write_word(al.v.chunks, fence, FencePost_new(FnStub(t), bw)), LAMBDA stub :
             [v |-> IF ok
                    THEN [al.v EXCEPT !.chunks =
                             write_word(
                                 copy_nonoverlapping(stub, al.obj,
                                                     [k \in 1..size_of(t) |-> elem]),
                                 fence, FencePost_new(FnForward(t), bw))]
                    ELSE [al.v EXCEPT !.chunks = stub],
              backward |-> FnBackward(t), ptr |-> al.obj,
              panic |-> FALSE, wild |-> FALSE])))

\* Arena::alloc(f): self.vec.emplace(f)
Arena_alloc(v, bw, t, elem, ok) == HetVec_emplace(v, bw, t, elem, ok)

\* DynChain::push(elem) -> &T: the push of a heterogeneous vector
DynChain_push(v, bw, t, elem) == HetVec_push(v, bw, t, elem)

\* DynZone::alloc(f): self.chain.push(f()); f() runs first, and when it fails
\* nothing is pushed
DynZone_alloc(v, bw, t, elem, ok) ==
    IF ok THEN DynChain_push(v, bw, t, elem)
    ELSE [v |-> v, backward |-> bw, ptr |-> Null, panic |-> FALSE, wild |-> FALSE]

\* the state after alloc(f) came to r, f() having completed (ok) or failed
Allocated(r, t, elem, ok) ==
    /\ Len(r.v.chunks) <= MaxChunks
    /\ SetVec(r.v)
    /\ backward' = r.backward
    /\ panicked' = r.panic
    /\ wild' = r.wild
    /\ issued' = IF ok /\ ~r.panic /\ ~r.wild THEN Append(issued, << r.ptr, elem, t >>)
                 ELSE issued
    /\ failed' = IF ~ok /\ ~r.panic /\ ~r.wild THEN Append(failed, << r.ptr, t >>)
                 ELSE failed
    /\ op' = Op("alloc", 0, t, r.ptr, ok)
    /\ UNCHANGED << typevars, dropped, freed, resv, iter, out, quotas >>

ArenaAllocOf(t, elem, ok) ==
    /\ flavor = "Arena" /\ Alive /\ HetIdle /\ Len(issued) + Len(failed) < MaxElems
    /\ \E r \in { Arena_alloc(Vec, backward, t, elem, ok) } : Allocated(r, t, elem, ok)

ArenaAlloc ==
    \E t \in TypeIds : \E elem \in (IF size_of(t) = 0 THEN {0} ELSE Values) :
        \E ok \in BOOLEAN : ArenaAllocOf(t, elem, ok)

DynZoneAllocOf(t, elem, ok) ==
    /\ flavor = "DynZone" /\ Alive /\ HetIdle /\ Len(issued) + Len(failed) < MaxElems
    /\ \E r \in { DynZone_alloc(Vec, backward, t, elem, ok) } : Allocated(r, t, elem, ok)

DynZoneAlloc ==
    \E t \in TypeIds : \E elem \in (IF size_of(t) = 0 THEN {0} ELSE Values) :
        \E ok \in BOOLEAN : DynZoneAllocOf(t, elem, ok)

\* an empty Arena or DynZone
InitArena ==
    /\ flavor \in { "Arena", "DynZone" }
    /\ needs_drop = FALSE
    /\ SizeOfT = 1
    /\ dropped = << >>
    /\ freed = << >>
    /\ failed = << >>
    /\ \E cap \in { 0, MaxInitCap, MaxHetCap } :
         \E v \in { MonoVec_with_capacity(cap) } :
            /\ head = v.head /\ tail = v.tail /\ chunks = v.chunks /\ brk = v.brk
    /\ backward = Null
    /\ panicked = FALSE
    /\ wild = FALSE
    /\ resv = NoResv
    /\ op = NoOp
    /\ issued = << >>
    /\ iter = NoIter
    /\ out = << >>
    /\ quotas = << >>

\* values are allocated with constructors that complete or fail, and in the end
\* the arena is dropped
NextArena ==
    \/ ArenaAlloc
    \/ DynZoneAlloc
    \/ HetVecDrop

SpecArena == InitArena /\ [][NextArena]_vars

\* ------------------------------------------------------------ overflow
\* lengths at which the doubling, the byte size or the sum runs over the word
BigLens == { UsizeMax \div 4 + 2, UsizeMax \div 2 + 2, UsizeMax - 1, UsizeMax }

\* reserve(len) for a len far beyond what the tail holds: nothing is written,
\* the reserved space is left as it is
ReserveBig ==
    /\ flavor \in { "MonoVec", "Chain" } /\ Idle /\ op.name = ""
    /\ \E len \in BigLens :
         \E r \in { IF flavor = "MonoVec" THEN MonoVec_reserve(Vec, len)
                    ELSE Chain_reserve(Vec, len) } :
            /\ Len(r.v.chunks) <= MaxChunks
            /\ SetVec(r.v)
            /\ panicked' = r.panic
            /\ op' = Op("reserve", 0, len, r.cap, 0)
    /\ UNCHANGED << typevars, tornvars, backward, wild, resv, issued, iter, out, quotas >>

\* MonoVec::add_len(len) called with any len: the checked sum
MonoVecAddLenBig ==
    /\ flavor = "MonoVec" /\ Idle /\ op.name = ""
    /\ \E len \in BigLens :
         \E a \in { MonoVec_add_len(Vec, len) } :
            /\ SetVec(a.v)
            /\ panicked' = a.panic
            /\ op' = Op("add_len", 0, len, a.v.chunks[a.v.tail].len, chunks[tail].len)
    /\ UNCHANGED << typevars, tornvars, backward, wild, resv, issued, iter, out, quotas >>

\* Chain::add_len(len) called with any len: the += panics on overflow in a
\* build with overflow checks and wraps in a build without them
ChainAddLenBig ==
    /\ flavor = "Chain" /\ Idle /\ op.name = ""
    /\ \E len \in BigLens, checks \in BOOLEAN :
         \E a \in { IF checks /\ chunks[tail].len + len > UsizeMax
                    THEN [v |-> Vec, panic |-> TRUE]
                    ELSE Chain_add_len(Vec, len) } :
            /\ SetVec(a.v)
            /\ panicked' = a.panic
            /\ op' = Op("add_len", 0, len, a.v.chunks[a.v.tail].len, chunks[tail].len)
    /\ UNCHANGED << typevars, tornvars, backward, wild, resv, issued, iter, out, quotas >>

\* elements are pushed, and then reserve or add_len is called with a length
\* near the largest usize
NextOverflow ==
    \/ op.name = "" /\ MonoVecPush
    \/ op.name = "" /\ ChainPush
    \/ ReserveBig
    \/ MonoVecAddLenBig
    \/ ChainAddLenBig

SpecOverflow == InitDrop /\ [][NextOverflow]_vars

\* ------------------------------------------------------------ TypedArena
\* TypedArena::alloc(f): self.vec.push(f()); f() is evaluated once, as the
\* argument of push, and elem is the value it returns (calls: the calls of f)
TypedArena_alloc(v, elem) ==
    Bind(MonoVec_push(v, elem), LAMBDA r :
        [v |-> r.v, ptr |-> r.ptr, panic |-> r.panic, wild |-> r.wild, calls |-> 1])

TypedArenaAllocOf(elem) ==
    /\ flavor = "MonoVec" /\ Alive /\ Idle /\ Len(issued) < MaxElems
    /\ \E r \in { TypedArena_alloc(Vec, elem) } :
         /\ Len(r.v.chunks) <= MaxChunks
         /\ SetVec(r.v)
         /\ panicked' = r.panic
         /\ wild' = (wild \/ r.wild)
         /\ issued' = IF r.panic THEN issued ELSE Append(issued, << r.ptr, elem >>)
         /\ op' = Op("alloc", 0, elem, r.ptr, r.calls)
    /\ UNCHANGED << typevars, tornvars, backward, resv, iter, out, quotas >>

TypedArenaAlloc == \E elem \in Values : TypedArenaAllocOf(elem)

\* a TypedArena right after with_capacity(count): the MonoVec inside it
InitTyped == InitDrop /\ flavor = "MonoVec"

\* values are allocated, and in the end the arena is dropped
NextTyped ==
    \/ TypedArenaAlloc
    \/ MonoVecDrop

SpecTyped == InitTyped /\ [][NextTyped]_vars

\* ------------------------------------------------------------ shrink_len
\* the allocations (ptr, ptr + old_len) a caller may pass: old_len slots of one
\* chunk, from one of its first slots on
Allocations ==
    { << offset(ItemsPtr(chunks[x[1]]), x[2]), x[3] >> :
        x \in { y \in (1..Len(chunks)) \X (0..MaxReq) \X (0..MaxReq) :
                  y[2] + y[3] <= chunks[y[1]].cap } }

\* Chain::shrink_len(ptr, old_len, new_len), new_len <= old_len
ChainShrinkLenOf(ptr, old_len, new_len) ==
    /\ flavor = "Chain" /\ Alive /\ Idle
    /\ SetVec(Chain_shrink_len(Vec, ptr, old_len, new_len))
    /\ op' = Op("shrink_len", 0, 0, 0, 0)
    /\ UNCHANGED << typevars, tornvars, backward, panicked, wild, resv, issued, iter,
                    out, quotas >>

ChainShrinkLen ==
    \E a \in Allocations : \E new_len \in 0..a[2] : ChainShrinkLenOf(a[1], a[2], new_len)

\* elements are pushed and allocations are shrunk
NextShrink ==
    \/ ChainPush
    \/ ChainShrinkLen

\* a Chain of elements without drop glue
InitShrink == InitDrop /\ flavor = "Chain" /\ ~needs_drop

SpecShrink == InitShrink /\ [][NextShrink]_vars

\* ------------------------------------------------------------ push, step by step
\* push::<T>(elem) up to the return of alloc: let obj = self.alloc::<T>()
\* (op: the push under way, its type, its slot and the value still to be written)
HetVecPushAllocOf(t, elem) ==
    /\ flavor = "HetVec" /\ HetIdle /\ ~iter.live /\ op.name # "alloc"
    /\ Len(issued) < MaxElems
    /\ \E al \in { HetVec_alloc(Vec, backward, t) } :
          /\ Len(al.v.chunks) <= MaxChunks
          /\ SetVec(al.v)
          /\ panicked' = al.panic
          /\ wild' = al.wild
          /\ op' = IF al.panic \/ al.wild THEN NoOp ELSE Op("alloc", 0, t, al.obj, elem)
    /\ UNCHANGED << typevars, tornvars, backward, resv, issued, iter, out, quotas >>

HetVecPushAlloc ==
    \E t \in TypeIds : \E elem \in (IF size_of(t) = 0 THEN {0} ELSE Values) :
        HetVecPushAllocOf(t, elem)

\* the rest of push: ptr::write(obj, elem); self.backward.set(Self::backward::<T>); &*obj
HetVecPushWrite ==
    /\ flavor = "HetVec" /\ HetIdle /\ op.name = "alloc"
    /\ chunks' = copy_nonoverlapping(chunks, op.ret, [k \in 1..size_of(op.arg) |-> op.taken])
    /\ backward' = FnBackward(op.arg)
    /\ issued' = Append(issued, << op.ret, op.taken, op.arg >>)
    /\ op' = Op("push", 0, op.arg, op.ret, op.taken)
    /\ UNCHANGED << typevars, tornvars, head, tail, brk, panicked, wild, resv, iter, out,
                    quotas >>

NextPushSteps ==
    \/ HetVecPushAlloc
    \/ HetVecPushWrite

SpecPushSteps == InitHet /\ [][NextPushSteps]_vars


\* ------------------------------------------------------------ one-way traversal
\* values are pushed and the vector is traversed by iterators that are each
\* advanced from one end only
NextHetOneWay ==
    \/ HetVecPush
    \/ HetVecIntoIter
    \/ iter.back = 0 /\ HetItemsNext
    \/ iter.front = 0 /\ HetItemsNextBack
    \/ HetItemsDrop

SpecHetOneWay == InitHet /\ [][NextHetOneWay]_vars


\* ------------------------------------------------------------ Chain IntoIter
\* chain.into_iter() -> IntoIter { start, end, front }  (taken, given: the
\* elements yielded by next and by next_back so far)
Chain_into_iter(v) ==
    [live |-> TRUE, start |-> v.head, end |-> v.tail,
     front |-> ItemsPtr(v.chunks[v.head]), taken |-> 0, given |-> 0, done |-> FALSE]

\* heap::deallocate(chunk, size_of::<Chunk<T>>() + cap * size_of::<T>(),
\*                  min_align_of::<Chunk<T>>())
IntoIter_deallocate(chs, chunk, fr) ==
    Append(fr, [chunk |-> chunk,
                size |-> ChunkHeaderSize + chs[chunk].cap * SizeOfT,
                align |-> AlignOfChunk])

\* what an IntoIter call comes to
IntoIterRet(it, chs, fr, some, ptr, panic, ub) ==
    [it |-> it, chunks |-> chs, freed |-> fr, some |-> some, ptr |-> ptr,
     panic |-> panic, ub |-> ub]

\* IntoIter::next
RECURSIVE IntoIter_next(_, _, _)
IntoIter_next(chs, it, fr) ==
    LET chunk == it.start
        back == offset(ItemsPtr(chs[chunk]), chs[chunk].len)
    IN IF it.front = back
       THEN IF it.start = it.end
            THEN IntoIterRet(it, chs, fr, FALSE, Null, FALSE, FALSE)
            ELSE IntoIter_next(chs,
                               [it EXCEPT !.start = chs[chunk].next,
                                          !.front = ItemsPtr(chs[chs[chunk].next])],
                               IntoIter_deallocate(chs, chunk, fr))
       ELSE IntoIterRet([it EXCEPT !.front = offset(@, 1)], chs, fr, TRUE, it.front,
                        FALSE, ChunkAt(chs, it.front) = Null)

\* IntoIter::next_back; (*chunk).len -= 1 on a length of 0 panics in a build
\* with overflow checks and wraps in one without, where the read that follows
\* is outside the chunk
RECURSIVE IntoIter_next_back(_, _, _, _)
IntoIter_next_back(chs, it, fr, checks) ==
    LET chunk == it.end
        back == offset(ItemsPtr(chs[chunk]), chs[chunk].len)
    IN IF back = it.front
       THEN IF chunk = it.start
            THEN IntoIterRet(it, chs, fr, FALSE, Null, FALSE, FALSE)
            ELSE IntoIter_next_back(chs, [it EXCEPT !.end = chs[chunk].prev],
                                    IntoIter_deallocate(chs, chunk, fr), checks)
       ELSE IF chs[chunk].len = 0
       THEN IF checks THEN IntoIterRet(it, chs, fr, FALSE, Null, TRUE, FALSE)
            ELSE IntoIterRet(it, [chs EXCEPT ![chunk].len = UsizeMax], fr, TRUE,
                             (ItemsPtr(chs[chunk]) + UsizeMax * SizeOfT) % (UsizeMax + 1),
                             FALSE, TRUE)
       ELSE IntoIterRet(it, [chs EXCEPT ![chunk].len = @ - 1], fr, TRUE,
                        offset(ItemsPtr(chs[chunk]), chs[chunk].len - 1), FALSE, FALSE)

\* chain.into_iter(): the chain is moved into the iterator (mem::forget(self))
ChainIntoIter ==
    /\ flavor = "Chain" /\ Alive /\ Idle /\ ~wild
    /\ iter' = Chain_into_iter(Vec)
    /\ out' = << >>
    /\ head' = Null /\ tail' = Null
    /\ op' = Op("into_iter", 0, 0, 0, 0)
    /\ UNCHANGED << typevars, tornvars, backward, chunks, brk, panicked, wild, resv,
                    issued, quotas >>

\* the state after an IntoIter call that came to r (isFront: from next)
Moved(r, isFront) ==
    /\ iter' = [r.it EXCEPT !.taken = IF isFront /\ r.some THEN @ + 1 ELSE @,
                            !.given = IF ~isFront /\ r.some THEN @ + 1 ELSE @,
                            !.done = ~r.some /\ ~r.panic]
    /\ out' = IF r.some THEN Append(out, << r.ptr, ptr_read(chunks, r.ptr) >>) ELSE out
    /\ chunks' = r.chunks
    /\ freed' = r.freed
    /\ panicked' = r.panic
    /\ wild' = r.ub
    /\ op' = Op(IF isFront THEN "next" ELSE "next_back", 0, 0, 0, 0)
    /\ UNCHANGED << typevars, dropped, failed, backward, head, tail, brk, resv, issued,
                    quotas >>

IntoIterNext ==
    /\ flavor = "Chain" /\ ~Alive /\ iter.live /\ ~panicked /\ ~wild
    /\ \E r \in { IntoIter_next(chunks, iter, freed) } : Moved(r, TRUE)

IntoIterNextBack ==
    /\ flavor = "Chain" /\ ~Alive /\ iter.live /\ ~panicked /\ ~wild
    /\ \E checks \in BOOLEAN :
          \E r \in { IntoIter_next_back(chunks, iter, freed, checks) } : Moved(r, FALSE)

\* elements are pushed, then the chain is consumed from either end
NextIntoIter ==
    \/ ChainPush
    \/ ChainIntoIter
    \/ IntoIterNext
    \/ IntoIterNextBack

SpecIntoIter == InitShrink /\ [][NextIntoIter]_vars


\* ------------------------------------------------------------ io::Write
\* io::Write::write(buf) for MonoVec<u8> -> Ok(len)
MonoVec_write(v, buf) ==
    Bind(MonoVec_reserve(v, 0), LAMBDA r :
    Bind(Min(r.cap, Len(buf)), LAMBDA len :
      IF r.panic THEN [v |-> v, ptr |-> Null, ret |-> 0, panic |-> TRUE]
      ELSE [v |-> IF len # 0
                  THEN [r.v EXCEPT !.chunks = copy_nonoverlapping(@, r.ptr, SubSeq(buf, 1, len))]
                  ELSE r.v,
            ptr |-> r.ptr, ret |-> len, panic |-> FALSE]))

\* io::Write::write(buf) for Chain<u8> -> Ok(len)
Chain_write(v, buf) ==
    Bind(Chain_reserve(v, 0), LAMBDA r :
    Bind(Min(r.cap, Len(buf)), LAMBDA len :
      IF r.panic THEN [v |-> v, ptr |-> Null, ret |-> 0, panic |-> TRUE]
      ELSE [v |-> IF len # 0
                  THEN [r.v EXCEPT !.chunks = copy_nonoverlapping(@, r.ptr, SubSeq(buf, 1, len))]
                  ELSE r.v,
            ptr |-> r.ptr, ret |-> len, panic |-> FALSE]))

\* the state after write(buf) came to r (op: the buffer, the count returned
\* and the address the bytes were copied to)
Wrote(buf, r) ==
    /\ SetVec(r.v)
    /\ panicked' = r.panic
    /\ op' = Op("write", 0, buf, r.ret, r.ptr)
    /\ UNCHANGED << typevars, tornvars, backward, wild, resv, issued, iter, out, quotas >>

MonoVecWrite ==
    /\ flavor = "MonoVec" /\ Idle
    /\ \E buf \in Slices : \E r \in { MonoVec_write(Vec, buf) } : Wrote(buf, r)

ChainWrite ==
    /\ flavor = "Chain" /\ Idle
    /\ \E buf \in Slices : \E r \in { Chain_write(Vec, buf) } : Wrote(buf, r)

\* bytes are pushed into and written to a MonoVec<u8> or Chain<u8>
NextWrite ==
    \/ MonoVecPush
    \/ ChainPush
    \/ MonoVecWrite
    \/ ChainWrite

SpecWrite == Init /\ [][NextWrite]_vars


\* every operation of a Zone and of its Quotas: pushes, allocations (of zero slots
\* too), Quotas written with push, fill and extend, cleared, finalized into
\* slices and dropped, the releases in any order. No length depends on a value
\* that is written, so one value is written everywhere
OneValue(k) == [j \in 1..k |-> Min(NumVals, 1)]

LengthsPush == ZonePushOf(OneValue(1)[1])
LengthsQuotaPush == \E i \in Live : QuotaPushOf(i, OneValue(1)[1])
LengthsQuotaFill == \E i \in Live, k \in 0..MaxData : QuotaFillOf(i, OneValue(k))
LengthsQuotaExtend == \E i \in Live, k \in 0..MaxData : QuotaExtendOf(i, OneValue(k))

NextLengths ==
    \/ LengthsPush
    \/ ZoneAlloc
    \/ LengthsQuotaPush
    \/ LengthsQuotaFill
    \/ LengthsQuotaExtend
    \/ QuotaClear
    \/ QuotaIntoSlice
    \/ QuotaDrop

SpecLengths == InitZone /\ [][NextLengths]_vars

\* Chain::len(): the chunks' lengths added up from the head on (a plain +=)
RECURSIVE Chain_len_loop(_, _, _)
Chain_len_loop(chs, cur, len) ==
    IF cur = Null THEN len
    ELSE Chain_len_loop(chs, chs[cur].next, (len + chs[cur].len) % (UsizeMax + 1))

Chain_len(v) == Chain_len_loop(v.chunks, v.head, 0)

\* the chunks that make up the chain v, from the head on
RECURSIVE Linked(_, _)
Linked(chs, cur) == IF cur = Null THEN {} ELSE {cur} \cup Linked(chs, chs[cur].next)

\* ======================================================== properties
\* the committed elements of the chunks linked from c on, in link order, each
\* with its address
RECURSIVE Elems(_, _)
Elems(chs, c) ==
    IF c = Null THEN << >>
    ELSE [j \in 1..chs[c].len |-> << offset(ItemsPtr(chs[c]), j - 1), chs[c].items[j] >>]
         \o Elems(chs, chs[c].next)

\* chunk i is left where it is by a step: same block, same capacity, no
\* committed slot rewritten, links kept (the old tail may gain a successor)
ChunkKept(i) ==
    /\ i <= Len(chunks')
    /\ chunks'[i].base = chunks[i].base
    /\ chunks'[i].cap = chunks[i].cap
    /\ chunks'[i].prev = chunks[i].prev
    /\ chunks'[i].next = chunks[i].next \/ (i = tail /\ chunks[i].next = Null)
    /\ chunks'[i].len >= chunks[i].len
    /\ \A j \in 1..chunks[i].len : chunks'[i].items[j] = chunks[i].items[j]

\* C1: every reference handed out by MonoVec / Chain push, extend or
\* reserve + add_len keeps, across every later operation, its address, its
\* value and its place in iteration order; growth only links a new tail
\* chunk and never moves, resizes or rewrites an existing chunk.
C1_AddressStability ==
    [][ /\ \A k \in 1..Len(issued) :
              /\ ptr_read(chunks', issued[k][1]) = issued[k][2]
              /\ k <= Len(issued') /\ issued'[k] = issued[k]
        /\ Elems(chunks', head') = issued'
        /\ \A i \in 1..Len(chunks) : ChunkKept(i)
        /\ Len(chunks') \in { Len(chunks), Len(chunks) + 1 }
        /\ head' = head
      ]_vars

\* an element committed to the first chunk is still there after growth added
\* a second chunk that holds elements too
C1_Witness ==
    /\ flavor \in { "MonoVec", "Chain" }
    /\ Len(chunks) >= 2 /\ chunks[1].len >= 1 /\ chunks[2].len >= 1
    /\ ptr_read(chunks, issued[1][1]) = issued[1][2]
    /\ Elems(chunks, head) = issued

\* x is old * 2^k for the smallest k >= 1 that makes it at least n
IsGrowthCap(old, n, x) ==
    \E k \in 1..16 : /\ x = old * 2^k
                     /\ x >= n
                     /\ k = 1 \/ old * 2^(k - 1) < n

\* what reserve(len) leaves behind, against the state it started from
ReservePost(len) ==
    LET t == chunks[tail]
        free == t.cap - t.len
        t1 == chunks'[tail']
    IN /\ free >= len => chunks' = chunks /\ tail' = tail
       /\ free < len =>
             /\ Len(chunks') = Len(chunks) + 1
             /\ tail' = Len(chunks')
             /\ t1.prev = tail /\ t1.next = Null /\ t1.len = 0
             /\ chunks'[tail].next = tail'
             /\ IsGrowthCap(t.cap, len, t1.cap)
             /\ \A i \in 1..Len(chunks) : ChunkKept(i) /\ chunks'[i].len = chunks[i].len
       /\ resv'.live
       /\ resv'.ptr = offset(ItemsPtr(t1), t1.len)
       /\ resv'.cap = t1.cap - t1.len
       /\ resv'.cap >= len

\* C2: reserve(n) allocates no chunk when the tail has at least n free
\* slots; otherwise it links exactly one new tail chunk of capacity
\* old_tail_cap * 2^k for the smallest k >= 1 reaching n; it returns the
\* tail's write position and cap - len >= n.  Once more elements are
\* committed than the first chunk holds there is a second chunk, of at
\* least twice the first one's capacity.
C2_ReserveGrowth ==
    [][ /\ \A len \in 0..MaxReq :
              (MonoVecReserveOf(len) \/ ChainReserveOf(len)) /\ ~panicked' => ReservePost(len)
        /\ Len(issued') > chunks'[1].cap => Len(chunks') >= 2
        /\ Len(chunks') >= 2 => chunks'[2].cap >= 2 * chunks'[1].cap
      ]_vars

\* a pending reserve that had to skip one doubling: the new tail has four
\* times the capacity of the chunk before it
C2_Witness ==
    /\ resv.live /\ Len(chunks) >= 2
    /\ chunks[tail].cap = 4 * chunks[chunks[tail].prev].cap
    /\ resv.ptr = ItemsPtr(chunks[tail])
    /\ resv.cap = chunks[tail].cap

\* C3: an iterator over a MonoVec / Chain that is only advanced from the
\* front yields the committed elements in insertion order, from the first
\* one on, and all of them by the time it returns None; one only advanced
\* from the back yields them in reverse insertion order; every new
\* iterator starts over.
C3_IterationOrder ==
    iter.live =>
        /\ iter.back = 0 =>
              /\ iter.front <= Len(issued)
              /\ out = SubSeq(issued, 1, iter.front)
              /\ iter.done => out = issued
        /\ iter.front = 0 =>
              /\ iter.back <= Len(issued)
              /\ out = SubSeq(Reverse(issued), 1, iter.back)
              /\ iter.done => out = Reverse(issued)

\* a backward iteration that ran to None over elements spread over two chunks
C3_Witness ==
    /\ iter.live /\ iter.done /\ iter.front = 0 /\ iter.back >= 2
    /\ Len(chunks) >= 2 /\ chunks[1].len >= 1 /\ chunks[2].len >= 1
    /\ out = Reverse(issued)

\* address a lies in the span [origin, origin + cap) reserved for Quota q
InSpan(a, q) == q.origin <= a /\ a < offset(q.origin, q.cap)

\* the spans of Quotas p and q share no address
Disjoint(p, q) ==
    offset(p.origin, p.cap) <= q.origin \/ offset(q.origin, q.cap) <= p.origin

\* the step is a Zone::push and a is the address it returned
PushReturned(a) ==
    Len(issued') = Len(issued) + 1 /\ a = issued'[Len(issued')][1]

\* the step releases Quota i
Releases(i) == quotas[i].st = "live" /\ quotas'[i].st = "released"

\* what C5 says of a step, for Quotas that count as blocked by a later
\* allocation when they are released
GuardedShrink(Blocked(_)) ==
    /\ \A i \in 1..Len(quotas) :
          Releases(i) /\ Blocked(quotas[i]) => chunks' = chunks /\ tail' = tail
    /\ \A i \in 1..Len(quotas) :
          quotas[i].st = "released" /\ Blocked(quotas[i]) =>
              /\ \A a \in 0..brk' : PushReturned(a) => ~InSpan(a, quotas[i])
              /\ Len(quotas') = Len(quotas) + 1 =>
                    /\ ~InSpan(quotas'[Len(quotas')].origin, quotas[i])
                    /\ Disjoint(quotas'[Len(quotas')], quotas[i])

SawNonEmptyLater(q) == q.laterNZ
SawLater(q) == q.later

\* C5 (as the code has it): releasing a Quota after a later Zone::push, or
\* after a later Zone::alloc that returned a Quota of non-zero capacity,
\* changes no chunk length and leaves every chunk as it is, and no later
\* allocation returns an address inside the released Quota's span.
C5_GuardedShrink == [][GuardedShrink(SawNonEmptyLater)]_vars

\* C5 as stated: the same after any later allocation whatever
C5_AsStated == [][GuardedShrink(SawLater)]_vars

\* a Quota released with unwritten capacity after a later Quota of non-zero
\* capacity was reserved, and the later Quota still there
C5_Witness ==
    \E i \in 1..Len(quotas), j \in 1..Len(quotas) :
        /\ i < j
        /\ quotas[i].st = "released" /\ quotas[i].laterNZ /\ quotas[i].len < quotas[i].cap
        /\ quotas[j].st = "live" /\ quotas[j].cap > 0

\* the step is alloc(len) right after the release of Quota i, which was
\* reserved with non-zero capacity, not filled, and saw no allocation between
\* its reservation and this step; len fits into what Quota i left unwritten
AllocAfterRelease(i, len) ==
    /\ ZoneAllocOf(len) /\ ~panicked'
    /\ quotas[i].st = "released" /\ quotas[i].fresh
    /\ quotas[i].cap >= 1 /\ quotas[i].len < quotas[i].cap
    /\ len <= quotas[i].cap - quotas[i].len

\* C6 (as the code has it): after a Quota of non-zero capacity cap with
\* k < cap elements written is released with no intervening allocation, the
\* next Zone::alloc(m) with m <= cap - k allocates no chunk and returns a
\* Quota whose origin is the released Quota's origin + k: the k written
\* elements stay committed, the unwritten rest is handed out again.
C6_ShrinkBack ==
    [][ \A i \in 1..Len(quotas), len \in 0..MaxAlloc :
          AllocAfterRelease(i, len) =>
              /\ quotas'[Len(quotas')].origin = offset(quotas[i].origin, quotas[i].len)
              /\ Len(chunks') = Len(chunks)
      ]_vars

\* C6 as stated: the next alloc returns the released Quota's origin itself
C6_AsStated ==
    [][ \A i \in 1..Len(quotas), len \in 0..MaxAlloc :
          AllocAfterRelease(i, len) =>
              quotas'[Len(quotas')].origin = quotas[i].origin
      ]_vars

\* a Quota released with one element written and room left, and the next
\* Quota starting right behind that element
C6_Witness ==
    \E i \in 1..Len(quotas) :
        /\ i < Len(quotas)
        /\ quotas[i].st = "released" /\ ~quotas[i].later
        /\ quotas[i].len >= 1 /\ quotas[i].len < quotas[i].cap
        /\ quotas[i + 1].origin = offset(quotas[i].origin, quotas[i].len)

\* C7: Zone::alloc(len) returns a Quota with written length 0 whose capacity
\* is at least len and is the whole free capacity of the tail chunk, all of
\* which it commits; the spans of live Quotas are pairwise disjoint, lie in
\* committed memory, and no Zone::push or later Zone::alloc returns an
\* address inside one.
C7_AllocRegions ==
    [][ /\ \A len \in 0..MaxAlloc :
              ZoneAllocOf(len) /\ ~panicked' =>
                  LET b == quotas'[Len(quotas')]
                      t1 == chunks'[tail']
                      before == IF tail' = tail THEN chunks[tail].len ELSE 0
                  IN /\ b.len = 0 /\ b.cap >= len
                     /\ b.origin = offset(ItemsPtr(t1), before)
                     /\ b.cap = t1.cap - before
                     /\ t1.len = t1.cap
        /\ \A i \in Live :
              /\ \A a \in 0..brk' : PushReturned(a) => ~InSpan(a, quotas[i])
              /\ Len(quotas') = Len(quotas) + 1 =>
                    /\ ~InSpan(quotas'[Len(quotas')].origin, quotas[i])
                    /\ Disjoint(quotas'[Len(quotas')], quotas[i])
        /\ \A i \in 1..Len(quotas'), j \in 1..Len(quotas') :
              i < j /\ quotas'[i].st = "live" /\ quotas'[j].st = "live" =>
                  Disjoint(quotas'[i], quotas'[j])
        /\ \A i \in 1..Len(quotas') :
              quotas'[i].st = "live" /\ quotas'[i].cap > 0 =>
                  \E c \in 1..Len(chunks') :
                      /\ ItemsPtr(chunks'[c]) <= quotas'[i].origin
                      /\ offset(quotas'[i].origin, quotas'[i].cap)
                            <= offset(ItemsPtr(chunks'[c]), chunks'[c].len)
      ]_vars

\* two live Quotas of non-zero capacity and an element pushed after the
\* first of them was reserved
C7_Witness ==
    \E i \in 1..Len(quotas), j \in 1..Len(quotas) :
        /\ i < j
        /\ quotas[i].st = "live" /\ quotas[i].cap > 0 /\ quotas[i].laterNZ
        /\ quotas[j].st = "live" /\ quotas[j].cap > 0
        /\ Len(issued) >= 1
        /\ \A k \in 1..Len(issued) : ~InSpan(issued[k][1], quotas[i])

\* the step leaves every chunk as it is but for the item slots at the
\* addresses lo .. hi - 1
MemoryKeptOutside(lo, hi) ==
    /\ Len(chunks') = Len(chunks)
    /\ \A c \in 1..Len(chunks) :
          /\ [chunks'[c] EXCEPT !.items = << >>] = [chunks[c] EXCEPT !.items = << >>]
          /\ \A j \in 1..chunks[c].cap :
                LET a == offset(ItemsPtr(chunks[c]), j - 1)
                IN a < lo \/ a >= hi => chunks'[c].items[j] = chunks[c].items[j]

\* C8: Quota::push(v) on a full Quota (len = cap) returns Err(v) and changes
\* nothing; otherwise it writes v at origin + len, adds one to len and
\* returns Ok(()).
C8_QuotaPush ==
    [][ \A i \in 1..Len(quotas), elem \in Values :
          op'.q = i /\ QuotaPushOf(i, elem) =>
              LET q == quotas[i]
                  at == offset(q.origin, q.len)
              IN IF q.len = q.cap
                 THEN /\ op'.ret = elem
                      /\ quotas' = quotas /\ chunks' = chunks /\ wild' = wild
                 ELSE /\ op'.ret = 0
                      /\ quotas' = [quotas EXCEPT ![i].len = q.len + 1]
                      /\ ptr_read(chunks', at) = elem
                      /\ InSpan(at, q)
                      /\ MemoryKeptOutside(at, offset(at, 1))
                      /\ wild' = wild
      ]_vars

\* a push onto a full Quota of non-zero capacity has just returned Err
C8_Witness ==
    /\ op.name = "push" /\ op.ret # 0
    /\ quotas[op.q].cap >= 1 /\ quotas[op.q].len = quotas[op.q].cap
    /\ ~wild

\* C9: Quota::fill(slice) copies the min(cap - len, slice.len()) leading
\* elements of the slice to origin + len on and returns that count;
\* Quota::extend(iter) takes elements until the Quota is full or the
\* iterator is exhausted, none once it is full, and returns how many it
\* took; len <= cap stays true and nothing outside the Quota's span is
\* written.
C9_FillExtend ==
    [][ /\ op'.name \in { "fill", "extend" } =>
              \A i \in { op'.q }, data \in { d \in Slices : Len(d) = op'.arg } :
                  \/ op'.name = "fill" /\ QuotaFillOf(i, data)
                  \/ op'.name = "extend" /\ QuotaExtendOf(i, data)
                  =>
                      LET q == quotas[i]
                          n == Min(q.cap - q.len, Len(data))
                          at == offset(q.origin, q.len)
                      IN /\ op'.ret = n
                         /\ quotas' = [quotas EXCEPT ![i].len = q.len + n]
                         /\ \A k \in 1..n :
                               ptr_read(chunks', offset(at, k - 1)) = data[k]
                         /\ q.origin <= at /\ offset(at, n) <= offset(q.origin, q.cap)
                         /\ MemoryKeptOutside(at, offset(at, n))
                         /\ wild' = wild
                         /\ op'.name = "extend" => op'.taken = n
        /\ \A i \in 1..Len(quotas') : quotas'[i].len <= quotas'[i].cap
        /\ ~wild'
      ]_vars

\* an extend that was offered more than the Quota had room for: it took
\* and returned what fitted, and the Quota is full
C9_Witness ==
    /\ op.name = "extend" /\ op.ret >= 1 /\ op.ret < op.arg /\ op.taken = op.ret
    /\ quotas[op.q].len = quotas[op.q].cap
    /\ ~wild

\* C10: after Quota::clear() the Quota's written length is zero, whatever
\* the element type.
C10_ClearResets == op.name = "clear" => quotas[op.q].len = 0

\* what an Items iterator advanced from one end only has yielded: the
\* pushed values from the first on, or from the last on backwards, and all
\* of them once it has returned None
HetIterationOrder ==
    /\ iter.live /\ iter.back = 0 =>
          /\ iter.front <= Len(issued)
          /\ out = SubSeq(issued, 1, iter.front)
          /\ iter.done => out = issued
    /\ iter.live /\ iter.front = 0 =>
          /\ iter.back <= Len(issued)
          /\ out = SubSeq(Reverse(issued), 1, iter.back)
          /\ iter.done => out = Reverse(issued)

\* C4: after any sequence of HetVec pushes of values of differing types
\* (any mix of sizes and alignments), every push returns with its stores
\* inside the vector's chunks, forward iteration yields the erased view of
\* every pushed value once, in push order, and backward iteration yields
\* them in reverse push order.
C4_HetOrder == ~wild /\ HetIterationOrder

\* the same of the runs whose pushes all returned: there the order holds
HetOrderWhenPushesReturn == ~wild => HetIterationOrder

\* a is inside the view into_slice gives for Quota q: [origin, origin + len)
InView(a, q) == q.origin <= a /\ a < offset(q.origin, q.len)

\* the view of Quota q lies in the committed part of its chunk
ViewCommitted(chs, q) ==
    q.len >= 1 =>
        LET c == ChunkAt(chs, q.origin)
        IN c # Null /\ Slot(chs[c], q.origin) + q.len - 1 <= chs[c].len

\* C11: Quota::into_slice() yields a view over exactly [origin, origin + len),
\* the written prefix, which stays committed and holds the written elements;
\* after it no Zone::push and no Zone::alloc returns an address (or a Quota
\* span) inside that view and nothing rewrites it, whether or not the unused
\* tail of the Quota went back to the chain.
C11_SliceView ==
    [][ \A i \in 1..Len(quotas) :
          /\ Releases(i) =>
                /\ quotas'[i].origin = quotas[i].origin /\ quotas'[i].len = quotas[i].len
                /\ \A k \in 1..quotas[i].len :
                      ptr_read(chunks', offset(quotas[i].origin, k - 1)) \in Values
          /\ quotas[i].st = "released" \/ Releases(i) =>
                /\ ViewCommitted(chunks', quotas[i])
                /\ \A a \in 0..brk' :
                      /\ PushReturned(a) => ~InView(a, quotas[i])
                      /\ InView(a, quotas[i]) =>
                            /\ ptr_read(chunks', a) = ptr_read(chunks, a)
                            /\ Len(quotas') = Len(quotas) + 1 =>
                                  ~InSpan(a, quotas'[Len(quotas')])
      ]_vars

\* a Quota with room left was finalized into a non-empty slice, its unused
\* tail went back to the chain, and a later allocation starts right behind
\* the slice
C11_Witness ==
    \E i \in 1..Len(quotas) :
        /\ quotas[i].st = "released" /\ quotas[i].len >= 1 /\ quotas[i].len < quotas[i].cap
        /\ \/ \E j \in 1..Len(quotas) :
                 j > i /\ quotas[j].origin = offset(quotas[i].origin, quotas[i].len)
           \/ \E k \in 1..Len(issued) :
                 issued[k][1] = offset(quotas[i].origin, quotas[i].len)

\* the slice (ptr, len) lies in the committed part of one chunk
SliceCommitted(chs, ptr, len) ==
    \E c \in 1..Len(chs) :
        /\ ItemsPtr(chs[c]) <= ptr
        /\ offset(ptr, len) <= offset(ItemsPtr(chs[c]), chs[c].len)

\* C12: a format call returns a slice that holds exactly the text a direct
\* formatter produces from the same arguments, in length and in content, inside
\* committed memory, whatever number of attempts it took; and every slice
\* returned by an earlier format call still holds its text afterwards
C12_FormatRoundTrip ==
    [][ /\ ~panicked' /\ ~wild'
        /\ issued' # issued =>
             LET n == Len(issued') IN
             /\ op'.name = "format"
             /\ n = Len(issued) + 1
             /\ issued'[n][2] = op'.arg
             /\ op'.ret = Len(op'.arg)
             /\ SliceCommitted(chunks', issued'[n][1], op'.ret)
             /\ \A k \in 1..Len(issued) :
                  /\ issued'[k] = issued[k]
                  /\ from_raw_parts(chunks', issued[k][1], Len(issued[k][2])) = issued[k][2]
                  /\ \/ offset(issued[k][1], Len(issued[k][2])) <= issued'[n][1]
                     \/ offset(issued'[n][1], op'.ret) <= issued[k][1]
      ]_vars

\* a second text was formatted after a non-empty first one and took more than
\* one attempt
C12_Witness ==
    /\ Len(issued) = 2
    /\ issued[1][2] # << >>
    /\ op.name = "format" /\ Len(op.taken) >= 2
    /\ issued[2][2] = op.arg

\* C13: of the attempts of one format call, every one but the last was too
\* small for the text, each attempt after a failed one is reserved in a chunk
\* created for it, with at least twice the capacity of the failed one, and the
\* last attempt holds the text: the loop ends after at most as many attempts as
\* doublings reach the text's length
C13_FormatRetry ==
    [][ issued' # issued =>
          LET tries == op'.taken
              n == Len(tries)
          IN /\ n >= 1
             /\ tries[n].cap >= Len(op'.arg)
             /\ \A k \in 1..(n - 1) :
                  /\ tries[k].cap < Len(op'.arg)
                  /\ tries[k + 1].chunk = tries[k + 1].had + 1
                  /\ tries[k + 1].chunk > tries[k].chunk
                  /\ tries[k + 1].cap >= 2 * tries[k].cap
                  /\ tries[k + 1].cap = chunks'[tries[k + 1].chunk].cap
             /\ n <= Len(op'.arg) + 1
      ]_vars

\* a Zone::format that failed twice before the text fitted
C13_Witness ==
    /\ flavor = "Zone"
    /\ op.name = "format" /\ Len(op.taken) >= 3
    /\ Len(issued) >= 1 /\ issued[Len(issued)][2] = op.arg

\* the addresses of the committed elements of the chunks from c on
RECURSIVE ElemAddrs(_, _)
ElemAddrs(chs, c) ==
    IF c = Null THEN << >>
    ELSE [j \in 1..chs[c].len |-> offset(ItemsPtr(chs[c]), j - 1)]
         \o ElemAddrs(chs, chs[c].next)

\* the drop_in_place calls of the step
NewDropped == SubSeq(dropped', Len(dropped) + 1, Len(dropped'))

\* the calls in dr are one call for each address in addrs and no other call
OncePerElement(dr, addrs) ==
    /\ \A k \in 1..Len(addrs) :
         Cardinality({ n \in 1..Len(dr) : dr[n][1] = addrs[k] }) = 1
    /\ \A n \in 1..Len(dr) : \E k \in 1..Len(addrs) : dr[n][1] = addrs[k]

\* C14: when a Chain of an element type that needs drop is cleared or dropped,
\* drop_in_place is called exactly once on each committed element and on nothing
\* else, so that after the drop as many elements were finalized as were pushed
C14_ChainTeardown ==
    [][ flavor = "Chain" /\ needs_drop /\ op'.name \in { "clear", "drop" } =>
          /\ OncePerElement(NewDropped, ElemAddrs(chunks, head))
          /\ op'.name = "drop" => Len(dropped') = Len(issued)
      ]_vars

\* the same for element types of one byte, where the stride of the drop loop of
\* clear is one element
ChainTeardownOfBytes ==
    [][ flavor = "Chain" /\ needs_drop /\ SizeOfT = 1 /\ op'.name \in { "clear", "drop" } =>
          /\ OncePerElement(NewDropped, ElemAddrs(chunks, head))
          /\ op'.name = "drop" => Len(dropped') = Len(issued)
      ]_vars

\* C15: dropping a HetVec calls the drop glue once for every value pushed, with
\* the value's own type and at the address push returned, in push order, and
\* makes no other call: no entry is skipped, visited twice or finalized as
\* another type
C15_HetTeardown ==
    [][ flavor = "HetVec" /\ op'.name = "drop" /\ op.name # "drop" =>
          /\ ~wild'
          /\ dropped' = [k \in 1..Len(issued) |-> << issued[k][1], issued[k][3] >>]
          /\ op'.arg = 0
      ]_vars

\* a HetVec was dropped whose values, of three different types, lay in more
\* than one chunk
C15_Witness ==
    /\ flavor = "HetVec" /\ op.name = "drop"
    /\ Len(dropped) = 3
    /\ Cardinality({ dropped[k][2] : k \in 1..3 }) = 3
    /\ Cardinality({ ChunkAt(chunks, dropped[k][1]) : k \in 1..3 } \ { Null }) >= 2

\* C16: when an Arena or DynZone is dropped, the drop glue is called once for
\* every alloc whose constructor completed, at the address alloc returned and
\* with the type constructed there, so as many finalizers run as constructors
\* completed; no call is made for a slot whose constructor failed, and the walk
\* skips exactly those slots
C16_ArenaTeardown ==
    [][ op'.name = "drop" /\ flavor \in { "Arena", "DynZone" } =>
          /\ ~wild'
          /\ Len(dropped') = Len(issued)
          /\ dropped' = [k \in 1..Len(issued) |-> << issued[k][1], issued[k][3] >>]
          /\ \A n \in 1..Len(failed), k \in 1..Len(dropped') :
                (failed[n][1] = Null) \/ (dropped'[k][1] # failed[n][1])
          /\ op'.arg = Cardinality({ n \in 1..Len(failed) : failed[n][1] # Null })
      ]_vars

\* an Arena was dropped in which a slot whose constructor failed lay between
\* two values that were constructed
C16_Witness ==
    /\ flavor = "Arena" /\ op.name = "drop"
    /\ Len(dropped) = 2 /\ Len(failed) = 1
    /\ dropped[1][1] < failed[1][1] /\ failed[1][1] < dropped[2][1]

\* no chunk is deallocated twice, and once the vector is dropped every chunk
\* has been deallocated
FreedOnce ==
    /\ \A m, n \in 1..Len(freed) : freed[m].chunk = freed[n].chunk => m = n
    /\ ~Alive => { freed[n].chunk : n \in 1..Len(freed) } = 1..Len(chunks)

\* C17: over the life of a MonoVec or Chain every chunk is deallocated exactly
\* once, never twice and none is left when the vector is gone, and every
\* heap::deallocate call passes the size and the alignment heap::allocate was
\* given for that chunk
C17_ChunkRelease ==
    /\ FreedOnce
    /\ \A n \in 1..Len(freed) :
         /\ freed[n].size = chunks[freed[n].chunk].size
         /\ freed[n].align = AlignOfChunk

\* every chunk was allocated with the exact byte size of its header and capacity
ChunkSizesExact ==
    \A c \in 1..Len(chunks) :
        /\ chunks[c].size = ChunkHeaderSize + chunks[c].cap * SizeOfT
        /\ chunks[c].size <= UsizeMax

\* a reserve that returned made room for the whole request
ReserveExact ==
    op.name = "reserve" /\ ~panicked => op.ret >= op.arg /\ op.ret <= chunks[tail].cap

\* an add_len that returned left the exact sum as the tail's length
AddLenExact ==
    op.name = "add_len" /\ ~panicked => chunks[tail].len = op.taken + op.arg

\* C18: the capacity, length and byte-size computations of chunk creation,
\* reserve and add_len give the exact value or abort the operation; none gives
\* a value reduced modulo the word, and no chunk is smaller than the
\* reservation it was created for
C18_OverflowFatal ==
    /\ ChunkSizesExact
    /\ ReserveExact
    /\ AddLenExact

\* the same without the add_len of Chain
OverflowFatalInMonoVec ==
    /\ ChunkSizesExact
    /\ ReserveExact
    /\ flavor = "MonoVec" => AddLenExact

\* C19: an alloc of a TypedArena calls the constructor once, stores the value
\* it returned in the slot whose address it returns, and that slot overlaps
\* none of the slots returned by earlier allocs, which keep their values,
\* whether or not the alloc made the vector grow
C19_TypedAlloc ==
    [][ op'.name = "alloc" =>
          \A elem \in { op'.arg } :
              TypedArenaAllocOf(elem) =>
                  /\ ~panicked' /\ ~wild'
                  /\ op'.taken = 1
                  /\ issued' = Append(issued, << op'.ret, elem >>)
                  /\ ptr_read(chunks', op'.ret) = elem
                  /\ ChunkAt(chunks', op'.ret) # Null
                  /\ ChunkAt(chunks', op'.ret + SizeOfT - 1) = ChunkAt(chunks', op'.ret)
                  /\ \A k \in 1..Len(issued) :
                       /\ \/ issued[k][1] + SizeOfT <= op'.ret
                          \/ op'.ret + SizeOfT <= issued[k][1]
                       /\ ptr_read(chunks', issued[k][1]) = issued[k][2]
      ]_vars

\* the third alloc of an arena of two-byte values went into a new chunk
C19_Witness ==
    /\ op.name = "alloc" /\ SizeOfT = 2
    /\ Len(issued) = 3 /\ issued[3][1] = op.ret
    /\ ChunkAt(chunks, issued[3][1]) # ChunkAt(chunks, issued[2][1])

\* C20: shrink_len(ptr, old_len, new_len) with ptr + old_len at the tail's
\* write position sets the tail's length to the offset of ptr in the tail plus
\* new_len; with any other ptr + old_len no length changes. In both cases the
\* other chunks, the links, the slots and head and tail stay as they are
C20_ShrinkLenFrame ==
    [][ op'.name = "shrink_len" =>
          \A a \in Allocations : \A new_len \in 0..a[2] :
              ChainShrinkLenOf(a[1], a[2], new_len) =>
                  /\ head' = head /\ tail' = tail /\ brk' = brk
                  /\ Len(chunks') = Len(chunks)
                  /\ \A c \in 1..Len(chunks) :
                       /\ chunks'[c] = [chunks[c] EXCEPT !.len = chunks'[c].len]
                       /\ c # tail => chunks'[c].len = chunks[c].len
                  /\ chunks'[tail].len =
                       IF a[1] + a[2] * SizeOfT
                            = ItemsPtr(chunks[tail]) + chunks[tail].len * SizeOfT
                       THEN (a[1] - ItemsPtr(chunks[tail])) \div SizeOfT + new_len
                       ELSE chunks[tail].len
      ]_vars

\* a shrink_len in a Chain of two chunks, both holding elements, has taken
\* back a part of the tail
C20_Witness ==
    /\ op.name = "shrink_len" /\ Len(chunks) >= 2 /\ head # tail
    /\ chunks[head].len > 0
    /\ chunks[tail].len > 0
    /\ chunks[tail].len < Cardinality({ k \in 1..Len(issued) :
                                          ChunkAt(chunks, issued[k][1]) = tail })

\* what Drop for HetVec would finalize in the committed region as it is now
Finalizable == HetVec_drop(Vec, << >>)

\* the entries pushed so far as teardown names them: <<address, type>>
Entries(s) == [i \in 1..Len(s) |-> << s[i][1], s[i][3] >>]

\* every byte of the object of entry e = <<address, value, type>> holds its value
ObjectWritten(e) ==
    \A k \in 0..(size_of(e[3]) - 1) : ptr_read(chunks, e[1] + k) = e[2]

VecNext == [head |-> head', tail |-> tail', chunks |-> chunks', brk |-> brk']

\* where the entry of a push that returned starts: the write position the
\* push found, or the first byte of the chunk it linked
EntryStart == IF tail' = tail THEN WritePos(Vec) ELSE ItemsPtr(chunks'[tail'])

\* the Forward recovered from the fence post of the entry just pushed, decoded
\* with the backward function of the entry before it
PushedForward ==
    Call_forward(FencePost_forward(read_word(chunks', align(EntryStart, AlignOfFencePost)),
                                   backward),
                 align(EntryStart, AlignOfFencePost))

\* C22: for every entry pushed into a HetVec, the forward function recovered
\* from its fence post computes the address where push wrote the value as the
\* object address and the vector's write position right after the push as the
\* end address, so that a walk finds the next descriptor at the end address
\* rounded up to the descriptor alignment and ends at each chunk's committed
\* length: it visits exactly the pushed entries.
C22_DescriptorEnd ==
    [][ Len(issued') = Len(issued) + 1 =>
          LET e == issued'[Len(issued')]
          IN /\ PushedForward.type = e[3]
             /\ PushedForward.obj = e[1]
             /\ PushedForward.end = WritePos(VecNext)
             /\ PushedForward.end = e[1] + size_of(e[3])
             /\ ~HetVec_drop(VecNext, << >>).ub
             /\ HetVec_drop(VecNext, << >>).dropped = Entries(issued') ]_vars

\* a third entry has been pushed behind a byte, whose end address is odd, and
\* the entries lie in two chunks or more
C22_Witness ==
    /\ Alive /\ ~wild /\ ~panicked
    /\ Len(issued) = 3
    /\ size_of(issued[2][3]) = 1
    /\ issued[3][1] > issued[2][1] + 1 + SizeOfFencePost
    /\ Len(chunks) >= 2

\* the fence post of the i-th entry pushed: at the end of the entry before it,
\* or at the start of its chunk when it is the first there, rounded up to the
\* descriptor alignment
FenceOf(i) ==
    align(IF i = 1 \/ ChunkAt(chunks, issued[i][1] - 1) # ChunkAt(chunks, issued[i - 1][1] - 1)
          THEN ItemsPtr(chunks[ChunkAt(chunks, issued[i][1] - 1)])
          ELSE issued[i - 1][1] + size_of(issued[i - 1][3]),
          AlignOfFencePost)

\* the backward function of the i-th entry pushed; the null function for i = 0
BackwardOf(i) == IF i = 0 THEN Null ELSE FnBackward(issued[i][3])

\* every fence post holds forward ^ backward of its entry and of the entry
\* before it and gives back either function from the other; the vector keeps
\* the backward function of the last entry
FencePostsStored ==
    /\ backward = BackwardOf(Len(issued))
    /\ \A i \in 1..Len(issued) :
          LET word == read_word(chunks, FenceOf(i))
              f == FnForward(issued[i][3])
          IN /\ word = FencePost_new(f, BackwardOf(i - 1))
             /\ FencePost_forward(word, BackwardOf(i - 1)) = f
             /\ FencePost_backward(word, f) = BackwardOf(i - 1)

\* an iterator advanced with next holds the backward function of the entry it
\* has just passed
ForwardRecovers ==
    iter.live /\ iter.back = 0 => iter.backward = BackwardOf(iter.front)

\* an iterator advanced with next_back holds the backward function of the
\* entry in front of the one it has just passed
BackwardRecovers ==
    iter.live /\ iter.front = 0 => iter.back_backward = BackwardOf(Len(issued) - iter.back)

\* C23: a fence post built from forward function f and backward function b
\* gives f from forward(b) and b from backward(f); along a HetVec the b stored
\* with entry i is the backward function of entry i - 1 (null for the first),
\* the vector keeps the backward function of the last entry, and a forward
\* traversal from the null function and a backward traversal from the vector's
\* function hold the right function at every entry.
C23_FencePostRoundTrip ==
    ~wild /\ ~panicked => FencePostsStored /\ ForwardRecovers /\ BackwardRecovers

\* the same without the backward traversal: what is stored, and what a forward
\* traversal recovers
FencePostRoundTripForward ==
    ~wild /\ ~panicked => FencePostsStored /\ ForwardRecovers

\* the number of filler words in front of the object of the i-th entry
PadOf(i) == (issued[i][1] - FenceOf(i) - SizeOfFencePost) \div WordSize

\* the backward traversal recovers the right functions along the vectors
\* whose entries have no filler words
BackwardRecoversUnpadded ==
    ~wild /\ ~panicked /\ (\A i \in 1..Len(issued) : PadOf(i) = 0) => BackwardRecovers

\* the sentinel word alloc::<T> stamps into the padding of a T
Stamp(t) == Xor(FnForward(t), SENTINEL)

\* C24: for a value type whose alignment leaves p >= 0 filler words between
\* the end of the descriptor and the start of the object, HetVec::alloc stamps
\* the sentinel pattern into exactly those p words, writes no word at or beyond
\* the object's start address, and the fill loop terminates for every p: the
\* push returns, the filler words hold the sentinel and the memory behind the
\* object is as it was.
C24_SentinelFill ==
    [][ \A t \in TypeIds : \A elem \in Values \cup { 0 } :
          HetVecPushOf(t, elem) /\ ~panicked' =>
            LET fence == align(EntryStart, AlignOfFencePost)
                obj == align(fence + SizeOfFencePost, min_align_of(t))
            IN /\ ~wild'
               /\ \A a \in (fence + SizeOfFencePost)..(obj - 1) :
                     (a - fence) % WordSize = 0 => read_word(chunks', a) = Stamp(t)
               /\ \A a \in (obj + size_of(t))..brk' :
                     ptr_read(chunks', a) = ptr_read(chunks, a) ]_vars

\* the same of the pushes that need no filler word (p = 0): those return and
\* leave the memory behind the object alone
SentinelFillWithoutPadding ==
    [][ \A t \in TypeIds : \A elem \in Values \cup { 0 } :
          HetVecPushOf(t, elem) /\ ~panicked' =>
            LET fence == align(EntryStart, AlignOfFencePost)
                obj == align(fence + SizeOfFencePost, min_align_of(t))
            IN obj = fence + SizeOfFencePost =>
                 /\ ~wild'
                 /\ \A a \in (obj + size_of(t))..brk' :
                       ptr_read(chunks', a) = ptr_read(chunks, a) ]_vars

\* with a number p of filler words that is no multiple of size_of::<usize>()
\* the fill runs out of the chunk
SentinelFillOverruns ==
    [][ \A t \in TypeIds : \A elem \in Values \cup { 0 } :
          HetVecPushOf(t, elem) /\ ~panicked' =>
            LET fence == align(EntryStart, AlignOfFencePost)
                obj == align(fence + SizeOfFencePost, min_align_of(t))
            IN ((obj - fence - SizeOfFencePost) \div WordSize) % WordSize # 0 => wild' ]_vars

\* with p = size_of::<usize>() filler words the push returns with the first
\* of them stamped and the next one, the word in front of the object, untouched
SentinelFillSkips ==
    [][ \A t \in TypeIds : \A elem \in Values \cup { 0 } :
          HetVecPushOf(t, elem) /\ ~panicked' =>
            LET fence == align(EntryStart, AlignOfFencePost)
                obj == align(fence + SizeOfFencePost, min_align_of(t))
            IN obj = fence + SizeOfFencePost + WordSize * WordSize =>
                 /\ ~wild'
                 /\ read_word(chunks', fence + SizeOfFencePost) = Stamp(t)
                 /\ read_word(chunks', obj - WordSize) = read_word(chunks, obj - WordSize)
                 /\ read_word(chunks', obj - WordSize) # Stamp(t) ]_vars

\* the chunk that holds the i-th entry pushed
ChunkOf(i) == ChunkAt(chunks, issued[i][1] - 1)

\* where the entry behind the i-th one starts: the fence post of the next
\* entry of the same chunk, or the chunk's committed end
EntryEnd(i) ==
    IF i < Len(issued) /\ ChunkOf(i + 1) = ChunkOf(i) THEN FenceOf(i + 1)
    ELSE ItemsPtr(chunks[ChunkOf(i)]) + chunks[ChunkOf(i)].len

\* backward::<T> of the i-th entry, called as next_back calls it, finds the
\* fence post push used
BackwardFinds(i) ==
    HetVec_backward(chunks, issued[i][3], EntryEnd(i)).fence = FenceOf(i)

\* C25: for every entry of a HetVec, the backward function of its type, given
\* the position where the following entry's descriptor starts (or the chunk's
\* committed end), returns exactly the descriptor address that push used for
\* that entry, both when the value's alignment is no larger than the
\* descriptor's (fixed offset) and when it is larger (sentinel scan), including
\* when padding precedes the following descriptor.
C25_BackwardBoundary ==
    ~wild /\ ~panicked => \A i \in 1..Len(issued) : BackwardFinds(i)

\* the same of the entries without filler words: the fixed offset, with or
\* without padding in front of the following descriptor, and the scan that has
\* nothing to step over
BackwardBoundaryUnpadded ==
    ~wild /\ ~panicked => \A i \in 1..Len(issued) : PadOf(i) = 0 => BackwardFinds(i)

\* behind filler words the scan stops short of the fence post: the word in
\* front of the object was never written and does not read as the sentinel
BackwardBoundaryPadded ==
    ~wild /\ ~panicked =>
        \A i \in 1..Len(issued) :
            PadOf(i) > 0 =>
                HetVec_backward(chunks, issued[i][3], EntryEnd(i)).fence
                    = issued[i][1] - SizeOfFencePost

\* what a live iterator has yielded so far are entries of the vector, none of
\* them twice, and all of them once a call has returned None
YieldedOnce ==
    /\ \A m \in 1..Len(out) : \E i \in 1..Len(issued) : out[m] = issued[i]
    /\ \A m, n \in 1..Len(out) : out[m][1] = out[n][1] => m = n
    /\ iter.done => Len(out) = Len(issued)

\* C26: on a single Items iterator any interleaving of next() and next_back()
\* yields every pushed entry exactly once in total, and once all entries have
\* been yielded each further call of next() or next_back() returns None after
\* finitely many steps: no call loops for ever or decodes a word that is no
\* fence post.
C26_DoubleEndedFinite ==
    iter.live => ~iter.hung /\ ~wild /\ YieldedOnce

\* C27: for a Chain with any number of chunks, repeated IntoIter::next_back()
\* yields every committed element exactly once in reverse push order and then
\* None; it crosses from an exhausted chunk to its predecessor, never
\* decrements a chunk length below zero, and any interleaving with
\* IntoIter::next() yields each element at most once.
C27_IntoIterBack ==
    flavor = "Chain" /\ ~Alive /\ iter.live =>
        /\ ~panicked /\ ~wild
        /\ \A c \in 1..Len(chunks) : 0 <= chunks[c].len /\ chunks[c].len <= chunks[c].cap
        /\ \A m \in 1..Len(out) : \E i \in 1..Len(issued) : out[m] = issued[i]
        /\ \A m, n \in 1..Len(out) : out[m][1] = out[n][1] => m = n
        /\ iter.taken = 0 =>
              /\ iter.given <= Len(issued)
              /\ out = SubSeq(Reverse(issued), 1, iter.given)
              /\ iter.done => out = Reverse(issued)

\* the same of the chains that consist of one chunk
IntoIterBackOfOneChunk ==
    Len(chunks) = 1 => C27_IntoIterBack

\* the tail chunk has no free slot
TailFull == chunks[tail].len = chunks[tail].cap

\* C28: when io::Write::write(buf) on a Chain<u8> or MonoVec<u8> returns
\* Ok(n), the vector's length has grown by n and the n bytes are the last n
\* bytes yielded by forward iteration; a write of a non-empty buffer to a
\* vector whose tail chunk is full does not return Ok(0): the vector grows.
C28_WriteCommits ==
    [][ op'.name = "write" /\ ~panicked' =>
          LET n == op'.ret
              buf == op'.arg
              before == Elems(chunks, head)
              after == Elems(chunks', head')
          IN /\ Len(after) = Len(before) + n
             /\ \A k \in 1..n :
                   Len(before) + k <= Len(after) /\ after[Len(before) + k][2] = buf[k]
             /\ buf # << >> /\ TailFull => n > 0 ]_vars

\* what write does: it copies the first min(free, buf.len()) bytes to the
\* tail's write position and returns their number; no length changes and no
\* chunk is linked
WriteStoresUncommitted ==
    [][ op'.name = "write" /\ ~panicked' =>
          LET n == op'.ret
              buf == op'.arg
          IN /\ n = Min(chunks[tail].cap - chunks[tail].len, Len(buf))
             /\ op'.taken = WritePos(Vec)
             /\ \A k \in 1..n : ptr_read(chunks', offset(op'.taken, k - 1)) = buf[k]
             /\ Elems(chunks', head') = Elems(chunks, head)
             /\ Len(chunks') = Len(chunks) /\ tail' = tail ]_vars

\* ---------------------------------------------------------------- C29
\* every chunk's length lies between zero and its capacity, and no live Quota
\* has written more than it holds
LengthsBounded ==
    /\ \A c \in 1..Len(chunks) : 0 <= chunks[c].len /\ chunks[c].len <= chunks[c].cap
    /\ \A i \in Live : 0 <= quotas[i].len /\ quotas[i].len <= quotas[i].cap

\* Quota i is released by this step
ReleasedNow(i) == i \in Live /\ quotas'[i].st = "released"

\* the release of a Quota whose end is the write position takes its unwritten
\* slots, never more than the tail holds, off the tail's length; any other
\* release leaves every length alone
ShrinkBackBounded ==
    \A i \in 1..Len(quotas) :
        ReleasedNow(i) =>
            LET q == quotas[i]
                t == chunks[tail]
            IN IF offset(q.origin, q.cap) = WritePos(Vec)
               THEN /\ q.cap <= t.len
                    /\ chunks' = [chunks EXCEPT ![tail].len = t.len - (q.cap - q.len)]
               ELSE chunks' = chunks

\* C29: after any sequence of Zone::push, Zone::alloc (alloc(0) included), Quota
\* push, fill, extend and clear, into_slice and releases in any order, every
\* chunk has 0 <= len <= cap, every live Quota has len <= cap, and a shrink-back
\* never subtracts more than the tail chunk's current length
C29_LengthBounds ==
    /\ LengthsBounded
    /\ [][LengthsBounded' /\ ShrinkBackBounded]_vars

\* a Quota was released while a Quota reserved after it (one of zero slots, at
\* its end) is still live, in a Zone that was also pushed to, and the release
\* gave the unwritten slots back to the tail
C29_Witness ==
    /\ flavor = "Zone"
    /\ issued # << >>
    /\ \E i, j \in 1..Len(quotas) :
         /\ i < j
         /\ quotas[i].st = "released"
         /\ 0 < quotas[i].len /\ quotas[i].len < quotas[i].cap
         /\ quotas[j].st = "live" /\ quotas[j].cap = 0
         /\ quotas[j].origin = offset(quotas[i].origin, quotas[i].cap)
         /\ WritePos(Vec) = offset(quotas[i].origin, quotas[i].len)
         /\ ChunkAt(chunks, quotas[i].origin) = tail

\* ---------------------------------------------------------------- C30
\* this step is a Chain::clear()
ClearStep == flavor = "Chain" /\ op.name # "clear" /\ op'.name = "clear"

\* the chunks handed to deallocate by this step
FreedNow == [k \in 1..(Len(freed') - Len(freed)) |-> freed'[Len(freed) + k].chunk]

\* what clear leaves: the former tail as the only chunk, empty, with the
\* capacity it had; len() is 0 and neither end of an iteration yields anything;
\* every other chunk of the former chain went to deallocate once
ClearLeavesEmptyTail ==
    /\ head' = tail /\ tail' = tail
    /\ chunks'[tail].len = 0
    /\ chunks'[tail].cap = chunks[tail].cap
    /\ chunks'[tail].next = Null
    /\ Chain_len(Vec') = 0
    /\ ~FlatMap_next(chunks', NewIter(Vec')).some
    /\ ~FlatMap_next_back(chunks', NewIter(Vec')).some
    /\ { FreedNow[k] : k \in DOMAIN FreedNow } = Linked(chunks, head) \ {tail}
    /\ \A k, l \in DOMAIN FreedNow : FreedNow[k] = FreedNow[l] => k = l

\* this step is a push onto a Chain that was just cleared
PushAfterClear ==
    flavor = "Chain" /\ op.name = "clear" /\ ~panicked' /\ Len(issued') = Len(issued) + 1

\* the element lands in the first slot of the chunk that survived the clear
PushReusesTail ==
    /\ head' = head /\ tail' = tail
    /\ issued'[Len(issued')][1] = ItemsPtr(chunks[tail])
    /\ chunks'[tail].len = 1
    /\ chunks'[tail].items[1] = issued'[Len(issued')][2]
    /\ Chain_len(Vec') = 1

\* C30: Chain::clear() leaves a reusable empty chain: head == tail, the surviving
\* chunk is the former tail with length 0 and its capacity, len() is 0, forward
\* and backward iteration yield nothing, every former non-tail chunk was released,
\* and a following push stores its element in the first slot of that chunk
C30_ClearReusable ==
    [][ /\ (ClearStep => ClearLeavesEmptyTail)
        /\ (PushAfterClear => PushReusesTail) ]_vars

\* a chain of several chunks holding elements was just cleared
C30_Witness ==
    /\ flavor = "Chain" /\ op.name = "clear"
    /\ head = tail /\ head # Null
    /\ Len(freed) >= 1
    /\ issued # << >>
    /\ chunks[tail].prev # Null
====
